---- MODULE Spec2Model ----
(***************************************************************************)
(* Diwa: a feedforward neural network kept in one flat arena (weights,     *)
(* activations, deltas), with online backpropagation and a binary model    *)
(* file.  This module models the hosted (non-Arduino) build of             *)
(* src/src/diwa.cpp, lines 1-517, with src/src/diwa_conv.h and             *)
(* src/src/diwa_activations.h.                                             *)
(*                                                                         *)
(* Numbers.  A C++ double is modelled as a binary fixed-point number: the  *)
(* integer v stands for v / One, One = 2^FracBits.  Products are rounded   *)
(* to the grid, as a double product is rounded to the double grid.  The    *)
(* object representation of a double (what the union double_p exposes) is  *)
(* the IEEE-754 binary64 little-endian encoding of v / One.                *)
(*                                                                         *)
(* Memory.  malloc'ed arenas live in heap; a pointer is an arena id and an *)
(* element offset.  A cell that was never written is absent from the       *)
(* arena's map: reading it, or reading through a pointer that is null,     *)
(* indeterminate or dangling, yields an indeterminate value, chosen by the *)
(* caller of the read.  Cells at or past the allocated size belong to the  *)
(* allocator: a write there is kept until the allocator next runs.         *)
(***************************************************************************)
EXTENDS Integers, Sequences, FiniteSets, TLC

(* ------------------------------ bounds --------------------------------- *)

\* layer counts and widths handed to initialize range over 0..MaxCount
MaxCount == 2
\* the layer width of the networks that are run, trained, saved and loaded
Width == 1
\* rand() returns a value in 0..RandMax (the model's RAND_MAX)
RandMax == 1
\* a double is a multiple of 2^-FracBits
FracBits == 7
\* arenas the allocator can hand out before malloc returns NULL
MaxArenas == 4
\* train calls in one behaviour
MaxTrain == 1
\* calculateAccuracy and calculateLoss are asked for 1..MaxEpoch trials
MaxEpoch == 2
\* activation functions are applied to every double in [-MaxInput, MaxInput]
MaxInput == 32

(* --------------------------- program constants ------------------------- *)

DIWA_ACTFUNC_LOWER_BOUND == -30
DIWA_ACTFUNC_UPPER_BOUND == 30

\* enum DiwaError
NO_ERROR == 0
INVALID_PARAM_VALUES == 1
MODEL_READ_ERROR == 2
MODEL_SAVE_ERROR == 3
INVALID_MAGIC_NUMBER == 4
STREAM_NOT_OPEN == 5
MALLOC_FAILED == 6

(* ------------------------------ numbers -------------------------------- *)

One == 2 ^ FracBits
Half == One \div 2

Abs(v) == IF v < 0 THEN 0 - v ELSE v
Max(a, b) == IF a >= b THEN a ELSE b
Min(a, b) == IF a <= b THEN a ELSE b

\* a * b of two doubles, rounded toward zero to the grid
Mul(a, b) ==
    LET p == a * b
    IN  IF p >= 0 THEN p \div One ELSE 0 - ((0 - p) \div One)

\* a / b of two doubles (b # 0), rounded toward zero to the grid
Quot(a, b) ==
    LET n == a * One
    IN  IF (n >= 0) = (b > 0) THEN Abs(n) \div Abs(b)
        ELSE 0 - (Abs(n) \div Abs(b))

\* (double) of an int
ToDouble(n) == n * One

(* ------------------------------- bytes --------------------------------- *)

\* the characters 'd', 'i', 'w', 'a'
MagicSignature == <<100, 105, 119, 97>>

\* position of the most significant set bit of m > 0
RECURSIVE Msb(_)
Msb(m) == IF m <= 1 THEN 0 ELSE 1 + Msb(m \div 2)

\* union double_p: the 8 bytes b[0..7] of the double v / One (binary64,
\* little-endian): sign 1 bit, biased exponent 11 bits, fraction 52 bits of
\* which only the top 20 can be set for the magnitudes of the model
ObjectRep(v) ==
    IF v = 0 THEN <<0, 0, 0, 0, 0, 0, 0, 0>>
    ELSE LET s == IF v < 0 THEN 1 ELSE 0
             m == Abs(v)
             e == Msb(m)
             biased == (e - FracBits) + 1023
             hi20 == (m - 2 ^ e) * 2 ^ (20 - e)
         IN  <<0, 0, 0, 0,
               hi20 % 256,
               (hi20 \div 256) % 256,
               (biased % 16) * 16 + hi20 \div 65536,
               s * 128 + biased \div 16>>

\* union double_p read back: the double whose 8 bytes are b
ObjectVal(b) ==
    LET s == b[8] \div 128
        biased == (b[8] % 128) * 16 + b[7] \div 16
        hi20 == (b[7] % 16) * 65536 + b[6] * 256 + b[5]
        sh == (biased - 1023) - 20 + FracBits
        m == IF sh >= 0 THEN (1048576 + hi20) * 2 ^ sh
             ELSE (1048576 + hi20) \div 2 ^ (0 - sh)
    IN  IF biased = 0 /\ hi20 = 0 THEN 0
        ELSE IF s = 1 THEN 0 - m ELSE m

(* ------------------------------ DiwaConv ------------------------------- *)

\* intToU8a storing the most significant byte first
intToU8a_bigEndian(value) ==
    << (value \div 16777216) % 256,
       (value \div 65536) % 256,
       (value \div 256) % 256,
       (value \div 1) % 256 >>

\* bytes[n] = (value >> 8n) & 0xFF
intToU8a(value) ==
    << (value \div 1) % 256,
       (value \div 256) % 256,
       (value \div 65536) % 256,
       (value \div 16777216) % 256 >>

\* u8aToInt, were bit 31 of the result dropped
u8aToInt_positive(bytes) ==
    bytes[1] + bytes[2] * 256 + bytes[3] * 65536
    + (bytes[4] % 128) * 16777216

\* result |= bytes[n] << 8n in a 32-bit int: bit 31 is the sign
u8aToInt(bytes) ==
    bytes[1] + bytes[2] * 256 + bytes[3] * 65536
    + (IF bytes[4] >= 128 THEN bytes[4] - 256 ELSE bytes[4]) * 16777216

\* bytes[i] = db.b[i] for i = 0..7
doubleToU8a(value) == [i \in 1..8 |-> ObjectRep(value)[i]]

\* u8aToDouble filling the union from its last byte down
u8aToDouble_reversed(bytes) == ObjectVal([i \in 1..8 |-> bytes[9 - i]])

\* db.b[i] = bytes[i] for i = 0..7, then db.d
u8aToDouble(bytes) == ObjectVal([i \in 1..8 |-> bytes[i]])

(* --------------------------- activation functions ---------------------- *)

\* 1.0 / (1.0 + exp(-x)) on the grid: increasing, 1/2 at 0, slope 1/4 at 0,
\* and strictly between 0 and 1, as the double result is for |x| <= 30
Logistic(x) ==
    LET y == Half + (IF x >= 0 THEN x \div 4 ELSE 0 - ((0 - x) \div 4))
    IN  Max(1, Min(One - 1, y))

\* 1.0 / exp(x * x) on the grid: 1 at 0, decreasing in |x|, never negative
Bell(x) == Max(0, One - Mul(x, x))

\* sigmoid, were its comparisons with the bounds not strict
sigmoid_inclusive(x) ==
    IF x <= ToDouble(DIWA_ACTFUNC_LOWER_BOUND) THEN 0
    ELSE IF x >= ToDouble(DIWA_ACTFUNC_UPPER_BOUND) THEN One
    ELSE Logistic(x)

\* DiwaActivationFunc::sigmoid
sigmoid(x) ==
    IF x < ToDouble(DIWA_ACTFUNC_LOWER_BOUND) THEN 0
    ELSE IF x > ToDouble(DIWA_ACTFUNC_UPPER_BOUND) THEN One
    ELSE Logistic(x)

\* DiwaActivationFunc::gaussian
gaussian(x) ==
    IF x < ToDouble(DIWA_ACTFUNC_LOWER_BOUND) THEN 0
    ELSE IF x > ToDouble(DIWA_ACTFUNC_UPPER_BOUND) THEN One
    ELSE Bell(x)

\* a call through the function pointer this->activation
Activate(f, x) == IF f = "gaussian" THEN gaussian(x) ELSE sigmoid(x)

(* -------------------------------- state -------------------------------- *)

VARIABLES
    d,      \* the fields of the Diwa instance
    alive,  \* the instance is constructed and not yet destroyed
    heap,   \* the allocator's arenas
    disk,   \* the bytes of the model file
    last,   \* the last call made on the instance and what it returned
    hist,   \* how the instance came to its state: "fresh" from the
            \* constructor, "init" by initialize with randomize on, "other"
            \* by initialize without or by loadFromFile, "failed" when the
            \* last of these reported an error, "gone" once destroyed
    saved,  \* the instance as the last successful saveToFile saw it
    memo,   \* inference results since the weights last changed; the
            \* record of an inference call says whether its input is in memo
    trains, \* train calls made so far
    topo    \* the topology <<i, L, h, o>> this behaviour initializes with

vars == <<d, alive, heap, disk, last, hist, saved, memo, trains, topo>>

(* ------------------------------- pointers ------------------------------ *)

Arenas == 1..MaxArenas

\* a pointer: base 0 is NULL, base -1 an indeterminate address, base a in
\* Arenas the start of arena a; off is an offset in elements
NullPtr == [base |-> 0, off |-> 0]
WildPtr == [base |-> -1, off |-> 0]

\* p + k
PtrAdd(p, k) == [base |-> p.base, off |-> p.off + k]

\* an arena nobody has allocated, or that was freed
NoArena == [live |-> FALSE, size |-> 0, mem |-> <<>>]

\* p[k] lies in a live arena, inside its allocated size
InBounds(hp, p, k) ==
    /\ p.base \in Arenas
    /\ hp[p.base].live
    /\ p.off + k >= 0
    /\ p.off + k < hp[p.base].size

\* p[k] holds a value that a write of this program stored
Stored(hp, p, k) ==
    /\ p.base \in Arenas
    /\ hp[p.base].live
    /\ (p.off + k) \in DOMAIN hp[p.base].mem

\* the value read from p[k]; jv is what an indeterminate cell yields
Load(hp, p, k, jv) ==
    IF Stored(hp, p, k) THEN hp[p.base].mem[p.off + k] ELSE jv

\* the value of p[k] as a check (not the program) sees it: -1 - One stands
\* for 'indeterminate'
Peek(hp, p, k) == Load(hp, p, k, -1 - One)

\* p[k] = v.  A write through a null, indeterminate or dangling pointer
\* reaches no arena of the model
Store(hp, p, k, v) ==
    IF p.base \in Arenas /\ hp[p.base].live /\ p.off + k >= 0
    THEN LET a == p.base
             mem == hp[a].mem
             dom == DOMAIN mem \cup {p.off + k}
         IN  [hp EXCEPT ![a].mem =
                 [c \in dom |-> IF c = p.off + k THEN v ELSE mem[c]]]
    ELSE hp

\* the allocator ran: what lay past the end of an arena may be overwritten
Clobber(hp, clob) ==
    IF clob
    THEN [a \in Arenas |->
            [hp[a] EXCEPT !.mem =
                [c \in {x \in DOMAIN hp[a].mem : x < hp[a].size}
                    |-> hp[a].mem[c]]]]
    ELSE hp

\* some arena holds cells past its allocated size
HasSlack(hp) ==
    \E a \in Arenas : \E c \in DOMAIN hp[a].mem : c >= hp[a].size

FreeArenas(hp) == {a \in Arenas : ~hp[a].live}

LowestFree(hp) == CHOOSE a \in FreeArenas(hp) : \A b \in FreeArenas(hp) : a <= b

\* malloc(sizeof(double) * n) can return a block
CanMalloc(hp, n) == n >= 0 /\ FreeArenas(hp) # {}

\* malloc(sizeof(double) * n): ok is whether the allocator finds memory.
\* A negative n wraps to a size no allocator can serve
Malloc(hp, n, ok) ==
    IF ok /\ CanMalloc(hp, n)
    THEN LET a == LowestFree(hp)
         IN  [heap |-> [hp EXCEPT ![a] = [live |-> TRUE, size |-> n, mem |-> <<>>]],
              ptr |-> [base |-> a, off |-> 0]]
    ELSE [heap |-> hp, ptr |-> NullPtr]

\* free(p)
Free(hp, p) ==
    IF p.base \in Arenas /\ hp[p.base].live /\ p.off = 0
    THEN [hp EXCEPT ![p.base] = NoArena]
    ELSE hp

\* The arenas some field of the instance points into
Reachable(dd) == {dd.weights.base, dd.outputs.base, dd.deltas.base} \cap Arenas

Kept(hp, dd) == {a \in Reachable(dd) : hp[a].live}

\* the allocated arenas that no field points into any more: nothing can
\* read, write or free them again
Lost(hp, dd) == {a \in Arenas : hp[a].live /\ a \notin Reachable(dd)}

\* the lowest offset at which a field of the instance points into arena a;
\* the code indexes its pointers upwards only
Floor(dd, a) ==
    LET offs == {p.off : p \in {q \in {dd.weights, dd.outputs, dd.deltas} :
                                   q.base = a}}
    IN  CHOOSE lo \in offs : \A x \in offs : lo <= x

\* Addresses are compared only for being the same arena, so the heap is
\* kept in a normal form at the end of a call that allocates or frees: the
\* arenas the instance still points into come first, in their order, each
\* without the cells below the fields' pointers; an arena that is lost
\* leaves the model (the call's record counts it)
Settle(hp, dd) ==
    LET K == Kept(hp, dd)
        Rank(a) == Cardinality({b \in K : b <= a})
        Move(p) == IF p.base \in K THEN [base |-> Rank(p.base), off |-> p.off]
                   ELSE p
        From(n) == CHOOSE a \in K : Rank(a) = n
        Trim(a) == [hp[a] EXCEPT !.mem =
                       [c \in {x \in DOMAIN hp[a].mem : x >= Floor(dd, a)}
                           |-> hp[a].mem[c]]]
    IN  [heap |-> [n \in Arenas |->
                     IF n <= Cardinality(K) THEN Trim(From(n)) ELSE NoArena],
         d |-> [dd EXCEPT !.weights = Move(@), !.outputs = Move(@),
                          !.deltas = Move(@)],
         lost |-> Cardinality(Lost(hp, dd))]

(* ------------------------- memory access records ----------------------- *)

\* a run of accesses: the heap they leave, and whether one of them fell
\* outside the allocated part of a live arena
\* w and o are the cursors 'weights' and 'outputs' of Diwa::inference, as
\* offsets from this->weights and this->outputs
\* log is the sequence of the accesses: "r" or "w", the pointer and the
\* index.  The reads of one neuron are noted region by region, before the
\* write of its result
Mach(hp) == [hp |-> hp, ub |-> FALSE, w |-> 0, o |-> 0, log |-> <<>>]

MStore(m, p, k, v) ==
    [m EXCEPT !.hp = Store(m.hp, p, k, v),
              !.ub = m.ub \/ ~InBounds(m.hp, p, k),
              !.log = Append(@, <<"w", p, k>>)]

\* the reads p[k], ..., p[k + n - 1] are noted in m
MRead(m, p, k, n) ==
    [m EXCEPT !.ub = @ \/ (n > 0 /\ (~InBounds(m.hp, p, k)
                                      \/ ~InBounds(m.hp, p, k + n - 1))),
              !.log = @ \o [i \in 1..n |-> <<"r", p, k + i - 1>>]]

(* ------------------------------ the instance --------------------------- *)

\* values an indeterminate int, pointer or double can turn out to have
IndetInts == {0, 1}
IndetPtrs == {NullPtr, WildPtr}
IndetVals == {0, One}

\* the fields of class Diwa
Fields(i, h, L, o, wc, nc, w, outs, dl, act) ==
    [inputNeurons |-> i, hiddenNeurons |-> h, hiddenLayers |-> L,
     outputNeurons |-> o, weightCount |-> wc, neuronCount |-> nc,
     weights |-> w, outputs |-> outs, deltas |-> dl, activation |-> act]

\* what is left of the fields once the instance is destroyed
Gone == Fields(0, 0, 0, 0, 0, 0, NullPtr, NullPtr, NullPtr, "none")

\* the record of a call: its name, arguments and returned error code, how
\* many arenas it allocated and how many it lost, how many bytes it moved
\* from or to its stream, whether it accessed memory it does not own, and
\* for inference the returned pointer and what it points at on return,
\* and for inference and train the accesses to the arena in their order
Call(op, arg, err, alloc, lost, moved, ub, view, vals, log) ==
    [op |-> op, arg |-> arg, err |-> err, alloc |-> alloc, lost |-> lost,
     moved |-> moved, ub |-> ub, view |-> view, vals |-> vals, log |-> log]

\* the six counts of an instance, in the order saveToFile writes them
CountsOf(dd) ==
    <<dd.inputNeurons, dd.hiddenNeurons, dd.hiddenLayers, dd.outputNeurons,
      dd.weightCount, dd.neuronCount>>

NoSave == [valid |-> FALSE, counts |-> <<>>, w |-> <<>>, hist |-> "none"]

(* ------------------------------ initialize ----------------------------- *)

\* the k-th value rand() returns after the generator was left in state seed
Rand(seed, k) == (seed + k) % (RandMax + 1)

\* the random weight without its shift by 0.5
RandomWeight_unshifted(r) == Quot(ToDouble(r), ToDouble(RandMax))

\* (((double) rand()) / RAND_MAX) - 0.5
RandomWeight(r) == Quot(ToDouble(r), ToDouble(RandMax)) - Half

\* Diwa::randomizeWeights, from index i on
RECURSIVE randomizeWeightsFrom(_, _, _, _)
randomizeWeightsFrom(m, dd, i, seed) ==
    IF i >= dd.weightCount THEN m
    ELSE randomizeWeightsFrom(
             MStore(m, dd.weights, i, RandomWeight(Rand(seed, i))),
             dd, i + 1, seed)

randomizeWeights(m, dd, seed) == randomizeWeightsFrom(m, dd, 0, seed)

\* the number of elements Diwa::initializeWeights asks malloc for
ArenaElements(dd) == dd.weightCount * dd.neuronCount

\* initializeWeights that reports success whatever malloc returned
initializeWeights_unchecked(dd, hp, ok) ==
    LET r == Malloc(hp, ArenaElements(dd), ok)
    IN  [d |-> [dd EXCEPT !.weights = r.ptr],
         heap |-> r.heap,
         err |-> NO_ERROR,
         alloc |-> IF r.ptr = NullPtr THEN 0 ELSE 1]

\* Diwa::initializeWeights
initializeWeights(dd, hp, ok) ==
    LET r == Malloc(hp, ArenaElements(dd), ok)
    IN  [d |-> [dd EXCEPT !.weights = r.ptr],
         heap |-> r.heap,
         err |-> IF r.ptr = NullPtr THEN MALLOC_FAILED ELSE NO_ERROR,
         alloc |-> IF r.ptr = NullPtr THEN 0 ELSE 1]

\* the hidden weight count without the bias weight of each neuron
hiddenWeightCount_noBias(inputNeurons, hiddenLayers, hiddenNeurons) ==
    IF hiddenLayers # 0
    THEN inputNeurons * hiddenNeurons
         + (hiddenLayers - 1) * hiddenNeurons * hiddenNeurons
    ELSE 0

\* int hiddenWeightCount = hiddenLayers ? ... : 0
hiddenWeightCount(inputNeurons, hiddenLayers, hiddenNeurons) ==
    IF hiddenLayers # 0
    THEN (inputNeurons + 1) * hiddenNeurons
         + (hiddenLayers - 1) * (hiddenNeurons + 1) * hiddenNeurons
    ELSE 0

\* int outputWeightCount = (hiddenLayers ? hiddenNeurons + 1 : inputNeurons + 1)
\*                         * outputNeurons
outputWeightCount(inputNeurons, hiddenLayers, hiddenNeurons, outputNeurons) ==
    (IF hiddenLayers # 0 THEN hiddenNeurons + 1 ELSE inputNeurons + 1)
    * outputNeurons

\* Diwa::initialize; ok: malloc finds memory, seed: the state of rand()
initialize(dd, hp, inputNeurons, hiddenLayers, hiddenNeurons, outputNeurons, randomize, ok, seed) ==
    IF inputNeurons = 0 /\ hiddenLayers = 0 /\ hiddenNeurons = 0
       /\ outputNeurons = 0
    THEN [d |-> dd, heap |-> hp, err |-> NO_ERROR, alloc |-> 0, ub |-> FALSE]
    ELSE
    LET d1 == [dd EXCEPT
                 !.inputNeurons = inputNeurons,
                 !.hiddenLayers = hiddenLayers,
                 !.hiddenNeurons = hiddenNeurons,
                 !.outputNeurons = outputNeurons,
                 !.weightCount =
                     hiddenWeightCount(inputNeurons, hiddenLayers, hiddenNeurons)
                     + outputWeightCount(inputNeurons, hiddenLayers,
                                         hiddenNeurons, outputNeurons),
                 !.neuronCount =
                     inputNeurons + hiddenNeurons * hiddenLayers + outputNeurons]
        iw == IF randomize THEN initializeWeights(d1, hp, ok)
              ELSE [d |-> d1, heap |-> hp, err |-> NO_ERROR, alloc |-> 0]
        d2 == [iw.d EXCEPT
                 !.outputs = PtrAdd(iw.d.weights, iw.d.weightCount),
                 !.deltas = PtrAdd(iw.d.weights,
                                   iw.d.weightCount + iw.d.neuronCount)]
        m  == IF randomize THEN randomizeWeights(Mach(iw.heap), d2, seed)
              ELSE Mach(iw.heap)
    IN  IF iw.err # NO_ERROR
        THEN [d |-> iw.d, heap |-> iw.heap, err |-> iw.err, alloc |-> 0,
              ub |-> FALSE]
        ELSE [d |-> d2, heap |-> m.hp, err |-> NO_ERROR, alloc |-> iw.alloc,
              ub |-> m.ub]

(* -------------------------- construct, destroy ------------------------- *)

\* an instance right after Diwa::Diwa(): activation is set, and
\* initialize(0, 0, 0, 0) returns before it assigns any field, so every
\* other field keeps the indeterminate value it was created with
FreshInstances ==
    { initialize(Fields(gi, gi, gi, gi, gi, gi, gp, gp, gp, "sigmoid"),
                 [a \in Arenas |-> NoArena], 0, 0, 0, 0, TRUE, TRUE, 0).d :
        gi \in IndetInts, gp \in IndetPtrs }

NoView == NullPtr

Counts == 0..MaxCount

\* the arguments <<inputNeurons, hiddenLayers, hiddenNeurons, outputNeurons>>
\* of initialize
Topologies == Counts \X Counts \X Counts \X Counts

\* the two shapes of network the code tells apart: outputs fed by the
\* inputs, and outputs fed by a hidden layer
Shapes == {<<Width, 0, 0, Width>>, <<Width, 1, Width, Width>>}

\* the record of Diwa::Diwa()
\* topologies with a negative count, which initialize does not refuse
SignedShapes ==
    {<<0 - Width, 0, 0, Width>>, <<Width, 0 - 1, Width, Width>>,
     <<Width, 0, 0, 0 - Width>>}

Built == Call("Diwa", <<>>, NO_ERROR, 0, 0, 0, FALSE, NoView, <<>>, <<>>)

\* one instance is constructed; the behaviour initializes with one of the
\* topologies T
InitWith(T) ==
    /\ d \in FreshInstances
    /\ alive = TRUE
    /\ heap = [a \in Arenas |-> NoArena]
    /\ disk = <<>>
    /\ last = Built
    /\ hist = "fresh"
    /\ saved = NoSave
    /\ memo = {}
    /\ trains = 0
    /\ topo \in T

Init == InitWith(Topologies)

\* Diwa::Diwa() of the next instance, once the previous one is destroyed
Construct ==
    /\ ~alive
    /\ d' \in FreshInstances
    /\ alive' = TRUE
    /\ last' = Built
    /\ hist' = "fresh"
    /\ memo' = {}
    /\ UNCHANGED <<heap, disk, saved, trains, topo>>

\* free(p) is defined: p is null or the start of a live arena
FreeDefined(hp, p) ==
    p = NullPtr \/ (p.base \in Arenas /\ hp[p.base].live /\ p.off = 0)

\* Diwa::~Diwa()
Destroy ==
    /\ alive
    /\ \E s \in {Settle(Free(heap, d.weights), Gone)} :
           /\ heap' = s.heap
           /\ last' = Call("~Diwa", <<>>, NO_ERROR, 0, s.lost, 0,
                           ~FreeDefined(heap, d.weights), NoView, <<>>, <<>>)
    /\ d' = Gone
    /\ alive' = FALSE
    /\ hist' = "gone"
    /\ memo' = {}
    /\ UNCHANGED <<disk, saved, trains, topo>>

\* network.initialize(i, L, h, o, randomize), with the behaviour's topology
\* or with the all-zero one; ok is whether malloc finds memory
Initialize ==
    /\ alive
    /\ \E t \in {topo, <<0, 0, 0, 0>>}, randomize \in BOOLEAN :
       \E ok \in (IF randomize /\ t # <<0, 0, 0, 0>> THEN BOOLEAN ELSE {TRUE}),
          seed \in (IF randomize /\ t # <<0, 0, 0, 0>> THEN 0..RandMax ELSE {0}),
          clob \in {FALSE, randomize /\ t # <<0, 0, 0, 0>> /\ HasSlack(heap)} :
       \E r \in {initialize(d, Clobber(heap, clob), t[1], t[2], t[3], t[4],
                            randomize, ok, seed)} :
       \E s \in {Settle(r.heap, r.d)} :
          LET i == t[1]
              L == t[2]
              h == t[3]
              o == t[4]
              zero == i = 0 /\ L = 0 /\ h = 0 /\ o = 0
          IN  /\ d' = s.d
              /\ heap' = s.heap
              /\ last' = Call("initialize", <<i, L, h, o, randomize, ok>>,
                              r.err, r.alloc, s.lost, 0, r.ub, NoView, <<>>, <<>>)
              /\ hist' = IF zero THEN hist
                         ELSE IF r.err # NO_ERROR THEN "failed"
                         ELSE IF randomize THEN "init"
                         ELSE "other"
    /\ memo' = {}
    /\ UNCHANGED <<alive, disk, saved, trains, topo>>

(* ------------------------------- inference ----------------------------- *)

\* sum += *weights++ * inputs[k], for k = k, ..., nIn - 1; w is the offset
\* of the neuron's first weight, inOff the offset of inputs[0]
RECURSIVE weightedInputs(_, _, _, _, _, _, _)
weightedInputs(hp, dd, w, inOff, nIn, k, jv) ==
    IF k >= nIn THEN 0
    ELSE Mul(Load(hp, dd.weights, w + 1 + k, jv),
             Load(hp, dd.outputs, inOff + k, jv))
         + weightedInputs(hp, dd, w, inOff, nIn, k + 1, jv)

\* double sum = *weights++ * -1.0; then the inner loop
neuronSum(hp, dd, w, inOff, nIn, jv) ==
    Mul(Load(hp, dd.weights, w, jv), 0 - One)
    + weightedInputs(hp, dd, w, inOff, nIn, 0, jv)

\* the body of a 'for j' loop, did the bias weight not move the cursor
forwardNeuron_noBiasStep(m, dd, inOff, nIn, jv) ==
    LET sum == neuronSum(m.hp, dd, m.w, inOff, nIn, jv)
        m1  == MRead(MRead(m, dd.weights, m.w, nIn + 1), dd.outputs, inOff, nIn)
        m2  == MStore(m1, dd.outputs, m.o, Activate(dd.activation, sum))
    IN  [m2 EXCEPT !.w = m.w + nIn, !.o = m.o + 1]

\* one pass of the body of a 'for j' loop of Diwa::inference
forwardNeuron(m, dd, inOff, nIn, jv) ==
    LET sum == neuronSum(m.hp, dd, m.w, inOff, nIn, jv)
        m1  == MRead(MRead(m, dd.weights, m.w, nIn + 1), dd.outputs, inOff, nIn)
        m2  == MStore(m1, dd.outputs, m.o, Activate(dd.activation, sum))
    IN  [m2 EXCEPT !.w = m.w + nIn + 1, !.o = m.o + 1]

\* for(int j = j; j < count; ++j) of Diwa::inference
RECURSIVE forwardLayer(_, _, _, _, _, _, _)
forwardLayer(m, dd, inOff, nIn, count, j, jv) ==
    IF j >= count THEN m
    ELSE forwardLayer(forwardNeuron(m, dd, inOff, nIn, jv),
                      dd, inOff, nIn, count, j + 1, jv)

\* the loop over the hidden layers, did 'inputs' not move on after a layer
RECURSIVE forwardHidden_sameInputs(_, _, _, _, _)
forwardHidden_sameInputs(m, dd, inOff, h, jv) ==
    IF h >= dd.hiddenLayers THEN [m |-> m, inOff |-> inOff]
    ELSE forwardHidden_sameInputs(
             forwardLayer(m, dd, inOff, dd.hiddenNeurons, dd.hiddenNeurons, 0, jv),
             dd, inOff, h + 1, jv)

\* for(int h = h; h < hiddenLayers; ++h) of Diwa::inference
RECURSIVE forwardHidden(_, _, _, _, _)
forwardHidden(m, dd, inOff, h, jv) ==
    IF h >= dd.hiddenLayers THEN [m |-> m, inOff |-> inOff]
    ELSE forwardHidden(
             forwardLayer(m, dd, inOff, dd.hiddenNeurons, dd.hiddenNeurons, 0, jv),
             dd, inOff + dd.hiddenNeurons, h + 1, jv)

\* the input copy adding to what the activation slots hold
RECURSIVE copyInputs_accumulate(_, _, _, _)
copyInputs_accumulate(m, dd, x, k) ==
    IF k >= dd.inputNeurons THEN m
    ELSE copyInputs_accumulate(
             MStore(m, dd.outputs, k, Load(m.hp, dd.outputs, k, 0) + x[k + 1]),
             dd, x, k + 1)

\* the input copy, did it go to the start of the arena
RECURSIVE copyInputs_intoWeights(_, _, _, _)
copyInputs_intoWeights(m, dd, x, k) ==
    IF k >= dd.inputNeurons THEN m
    ELSE copyInputs_intoWeights(MStore(m, dd.weights, k, x[k + 1]), dd, x, k + 1)

\* memcpy(this->outputs, inputNeurons, sizeof(double) * this->inputNeurons)
RECURSIVE copyInputs(_, _, _, _)
copyInputs(m, dd, x, k) ==
    IF k >= dd.inputNeurons THEN m
    ELSE copyInputs(MStore(m, dd.outputs, k, x[k + 1]), dd, x, k + 1)

\* the n values at p, as the caller of inference reads them
ViewValues(hp, p, n, jv) == [j \in 1..n |-> Load(hp, p, j - 1, jv)]

\* Diwa::inference: the heap it leaves, the pointer it returns
inference(dd, hp, x, jv) ==
    LET m0 == [copyInputs(Mach(hp), dd, x, 0) EXCEPT !.o = dd.inputNeurons]
    IN  IF dd.hiddenLayers = 0
        THEN LET m1 == forwardLayer(m0, dd, 0, dd.inputNeurons,
                                    dd.outputNeurons, 0, jv)
             IN  [hp |-> m1.hp, ub |-> m1.ub, log |-> m1.log,
                  view |-> PtrAdd(dd.outputs, m0.o)]
        ELSE LET m1 == forwardLayer(m0, dd, 0, dd.inputNeurons,
                                    dd.hiddenNeurons, 0, jv)
                 fh == forwardHidden(m1, dd, dd.inputNeurons, 1, jv)
                 m2 == forwardLayer(fh.m, dd, fh.inOff, dd.hiddenNeurons,
                                    dd.outputNeurons, 0, jv)
             IN  [hp |-> m2.hp, ub |-> m2.ub, log |-> m2.log,
                  view |-> PtrAdd(dd.outputs, fh.m.o)]

\* the values a caller may pass in an input or target vector of length n
Vectors(n) == [1..n -> {0, One}]

\* every weight, and the activation region's base, is something the
\* program stored; otherwise a read may meet an indeterminate value
Determinate(hp, dd) ==
    /\ \A k \in 0..(dd.weightCount - 1) : Stored(hp, dd.weights, k)
    /\ dd.outputs.base \in Arenas
    /\ hp[dd.outputs.base].live
    /\ dd.deltas.base \in Arenas
    /\ hp[dd.deltas.base].live

Indet(hp, dd) == IF Determinate(hp, dd) THEN {0} ELSE IndetVals

\* The caller checked the error code of initialize or loadFromFile before
\* using the object: the last of them (if any) reported no error, and the
\* object is not as the constructor left it
Usable == alive /\ hist \in {"init", "other"}

\* network.inference(x)
Inference ==
    /\ Usable
    /\ \E x \in Vectors(d.inputNeurons), jv \in Indet(heap, d) :
          \E r \in {inference(d, heap, x, jv)} :
          \E vals \in {ViewValues(r.hp, r.view, d.outputNeurons, jv)} :
              /\ heap' = r.hp
              /\ last' = Call("inference", <<x, x \in {e.x : e \in memo}>>,
                              NO_ERROR, 0, 0, 0, r.ub, r.view, vals, r.log)
              /\ memo' = {e \in memo : e.x # x}
                         \cup {[x |-> x, view |-> r.view, vals |-> vals]}
    /\ UNCHANGED <<d, alive, disk, hist, saved, trains, topo>>

(* --------------------------------- train ------------------------------- *)

\* the first block of Diwa::train: the deltas of the output layer, from j on
RECURSIVE outputDeltas(_, _, _, _, _)
outputDeltas(m, dd, t, j, jv) ==
    IF j >= dd.outputNeurons THEN m
    ELSE LET at == dd.inputNeurons + dd.hiddenNeurons * dd.hiddenLayers + j
             o  == Load(m.hp, dd.outputs, at, jv)
             dl == Mul(Mul(t[j + 1] - o, o), One - o)
             m1 == MRead(m, dd.outputs, at, 1)
         IN  outputDeltas(
                 MStore(m1, dd.deltas, dd.hiddenNeurons * dd.hiddenLayers + j, dl),
                 dd, t, j + 1, jv)

\* the number of neurons of the layer after hidden layer h
forwardCount(dd, h) ==
    IF h = dd.hiddenLayers - 1 THEN dd.outputNeurons ELSE dd.hiddenNeurons

\* the sum over the following layer, did it start at the bias weight of
\* each row
RECURSIVE forwardDeltaSum_fromBias(_, _, _, _, _, _)
forwardDeltaSum_fromBias(hp, dd, h, j, k, jv) ==
    IF k >= forwardCount(dd, h) THEN 0
    ELSE LET firstDelta == (h + 1) * dd.hiddenNeurons
             firstWeight == (dd.inputNeurons + 1) * dd.hiddenNeurons
                            + (dd.hiddenNeurons + 1) * dd.hiddenNeurons * h
             weightIndex == k * (dd.hiddenNeurons + 1) + j
         IN  Mul(Load(hp, dd.deltas, firstDelta + k, jv),
                 Load(hp, dd.weights, firstWeight + weightIndex, jv))
             + forwardDeltaSum_fromBias(hp, dd, h, j, k + 1, jv)

\* delta += forwardDelta * forwardWeight, for k = k, ..., forwardCount - 1
RECURSIVE forwardDeltaSum(_, _, _, _, _, _)
forwardDeltaSum(hp, dd, h, j, k, jv) ==
    IF k >= forwardCount(dd, h) THEN 0
    ELSE LET firstDelta == (h + 1) * dd.hiddenNeurons
             firstWeight == (dd.inputNeurons + 1) * dd.hiddenNeurons
                            + (dd.hiddenNeurons + 1) * dd.hiddenNeurons * h
             weightIndex == k * (dd.hiddenNeurons + 1) + (j + 1)
         IN  Mul(Load(hp, dd.deltas, firstDelta + k, jv),
                 Load(hp, dd.weights, firstWeight + weightIndex, jv))
             + forwardDeltaSum(hp, dd, h, j, k + 1, jv)

\* the memory the sum above reads
RECURSIVE forwardDeltaReads(_, _, _, _, _)
forwardDeltaReads(m, dd, h, j, k) ==
    IF k >= forwardCount(dd, h) THEN m
    ELSE LET firstDelta == (h + 1) * dd.hiddenNeurons
             firstWeight == (dd.inputNeurons + 1) * dd.hiddenNeurons
                            + (dd.hiddenNeurons + 1) * dd.hiddenNeurons * h
             weightIndex == k * (dd.hiddenNeurons + 1) + (j + 1)
         IN  forwardDeltaReads(
                 MRead(MRead(m, dd.deltas, firstDelta + k, 1),
                       dd.weights, firstWeight + weightIndex, 1),
                 dd, h, j, k + 1)

\* the deltas of hidden layer h, from neuron j on
RECURSIVE hiddenLayerDeltas(_, _, _, _, _)
hiddenLayerDeltas(m, dd, h, j, jv) ==
    IF j >= dd.hiddenNeurons THEN m
    ELSE LET at    == dd.inputNeurons + h * dd.hiddenNeurons + j
             o     == Load(m.hp, dd.outputs, at, jv)
             delta == forwardDeltaSum(m.hp, dd, h, j, 0, jv)
             m1    == MRead(forwardDeltaReads(m, dd, h, j, 0), dd.outputs, at, 1)
         IN  hiddenLayerDeltas(
                 MStore(m1, dd.deltas, h * dd.hiddenNeurons + j,
                        Mul(Mul(o, One - o), delta)),
                 dd, h, j + 1, jv)

\* for(int h = h; h >= 0; --h): the deltas of the hidden layers
RECURSIVE hiddenDeltas(_, _, _, _)
hiddenDeltas(m, dd, h, jv) ==
    IF h < 0 THEN m
    ELSE hiddenDeltas(hiddenLayerDeltas(m, dd, h, 0, jv), dd, h - 1, jv)

\* *weights++ += *deltas * learningRate * firstOutput[k - 1], from k on;
\* m.w is the cursor 'weights', dl the offset of *deltas, src the offset of
\* firstOutput[0]
RECURSIVE updateRow(_, _, _, _, _, _, _, _)
updateRow(m, dd, lr, dl, src, nIn, k, jv) ==
    IF k >= nIn + 1 THEN m
    ELSE LET delta == Load(m.hp, dd.deltas, dl, jv)
             a     == Load(m.hp, dd.outputs, src + k - 1, jv)
             old   == Load(m.hp, dd.weights, m.w, jv)
             m1    == MRead(MRead(MRead(m, dd.deltas, dl, 1),
                                  dd.outputs, src + k - 1, 1),
                            dd.weights, m.w, 1)
             m2    == MStore(m1, dd.weights, m.w, old + Mul(Mul(delta, lr), a))
         IN  updateRow([m2 EXCEPT !.w = m.w + 1], dd, lr, dl, src, nIn,
                       k + 1, jv)

\* *weights (op) += *deltas * learningRate * -1.0, where the cursor then
\* moves on by step elements
updateBias(m, dd, lr, dl, step, jv) ==
    LET delta == Load(m.hp, dd.deltas, dl, jv)
        old   == Load(m.hp, dd.weights, m.w, jv)
        m1    == MRead(MRead(m, dd.deltas, dl, 1), dd.weights, m.w, 1)
        m2    == MStore(m1, dd.weights, m.w, old + Mul(Mul(delta, lr), 0 - One))
    IN  [m2 EXCEPT !.w = m.w + step]

\* the third block of Diwa::train: the weights of the output layer, from
\* neuron j on ("*weights++ += ..." for the bias)
RECURSIVE updateOutputLayer(_, _, _, _, _)
updateOutputLayer(m, dd, lr, j, jv) ==
    IF j >= dd.outputNeurons THEN m
    ELSE LET dl  == dd.hiddenNeurons * dd.hiddenLayers + j
             src == IF dd.hiddenLayers # 0
                    THEN dd.inputNeurons
                         + dd.hiddenNeurons * (dd.hiddenLayers - 1)
                    ELSE 0
             nIn == IF dd.hiddenLayers # 0 THEN dd.hiddenNeurons
                    ELSE dd.inputNeurons
         IN  updateOutputLayer(
                 updateRow(updateBias(m, dd, lr, dl, 1, jv),
                           dd, lr, dl, src, nIn, 1, jv),
                 dd, lr, j + 1, jv)

\* the weights of hidden layer h, from neuron j on ("*weights += ..." for
\* the bias: the cursor stays)
RECURSIVE updateHiddenLayer(_, _, _, _, _, _)
updateHiddenLayer(m, dd, lr, h, j, jv) ==
    IF j >= dd.hiddenNeurons THEN m
    ELSE LET dl  == h * dd.hiddenNeurons + j
             src == IF h # 0
                    THEN dd.inputNeurons + dd.hiddenNeurons * (h - 1)
                    ELSE 0
             nIn == IF h = 0 THEN dd.inputNeurons ELSE dd.hiddenNeurons
         IN  updateHiddenLayer(
                 updateRow(updateBias(m, dd, lr, dl, 0, jv),
                           dd, lr, dl, src, nIn, 1, jv),
                 dd, lr, h, j + 1, jv)

\* the offset of the first weight of hidden layer h
hiddenLayerWeights(dd, h) ==
    IF h # 0
    THEN (dd.inputNeurons + 1) * dd.hiddenNeurons
         + (dd.hiddenNeurons + 1) * dd.hiddenNeurons * (h - 1)
    ELSE 0

\* the offset of the first weight of the output layer
outputLayerWeights(dd) ==
    IF dd.hiddenLayers # 0
    THEN (dd.inputNeurons + 1) * dd.hiddenNeurons
         + (dd.hiddenNeurons + 1) * dd.hiddenNeurons * (dd.hiddenLayers - 1)
    ELSE 0

\* for(int h = h; h >= 0; --h): the weights of the hidden layers
RECURSIVE updateHidden(_, _, _, _, _)
updateHidden(m, dd, lr, h, jv) ==
    IF h < 0 THEN m
    ELSE updateHidden(
             updateHiddenLayer([m EXCEPT !.w = hiddenLayerWeights(dd, h)],
                               dd, lr, h, 0, jv),
             dd, lr, h - 1, jv)

\* the backward pass, did it update the output layer's weights before it
\* computed the deltas of the hidden layers
backward_outputUpdateFirst(m, dd, lr, t, jv) ==
    LET m1 == outputDeltas(m, dd, t, 0, jv)
        m2 == updateOutputLayer([m1 EXCEPT !.w = outputLayerWeights(dd)],
                                dd, lr, 0, jv)
        m3 == hiddenDeltas(m2, dd, dd.hiddenLayers - 1, jv)
    IN  updateHidden(m3, dd, lr, dd.hiddenLayers - 1, jv)

\* Diwa::train after its forward pass: deltas, then weights
backward(m, dd, lr, t, jv) ==
    LET m1 == outputDeltas(m, dd, t, 0, jv)
        m2 == hiddenDeltas(m1, dd, dd.hiddenLayers - 1, jv)
        m3 == updateOutputLayer([m2 EXCEPT !.w = outputLayerWeights(dd)],
                                dd, lr, 0, jv)
    IN  updateHidden(m3, dd, lr, dd.hiddenLayers - 1, jv)

\* Diwa::train
train(dd, hp, lr, x, t, jv) ==
    LET f == inference(dd, hp, x, jv)
        m == backward([Mach(f.hp) EXCEPT !.ub = f.ub, !.log = f.log], dd,
                      lr, t, jv)
    IN  [hp |-> m.hp, ub |-> m.ub, log |-> m.log]

\* the learning rates a caller passes
Rates == {One}

\* network.train(lr, x, t)
Train ==
    /\ Usable
    /\ trains < MaxTrain
    /\ \E lr \in Rates, x \in Vectors(d.inputNeurons),
          t \in Vectors(d.outputNeurons), jv \in Indet(heap, d) :
          \E r \in {train(d, heap, lr, x, t, jv)} :
              /\ heap' = r.hp
              /\ last' = Call("train", <<lr, x, t>>, NO_ERROR, 0, 0, 0, r.ub,
                              NoView, <<>>, r.log)
    /\ trains' = trains + 1
    /\ memo' = {}
    /\ UNCHANGED <<d, alive, disk, hist, saved, topo>>

(* ------------------------- accuracy and loss --------------------------- *)

\* testOutputs, were the comparison with 0.5 not strict
RECURSIVE testOutputs_atMost(_, _, _, _)
testOutputs_atMost(vals, t, j, correctOutput) ==
    IF j > Len(vals) THEN correctOutput
    ELSE testOutputs_atMost(vals, t, j + 1,
             IF vals[j] <= Half /\ t[j] # 0 THEN FALSE ELSE correctOutput)

\* the loop of Diwa::testInference over the output neurons, from j on:
\* correctOutput becomes false at an output below 0.5 whose target is
\* not 0
RECURSIVE testOutputs(_, _, _, _)
testOutputs(vals, t, j, correctOutput) ==
    IF j > Len(vals) THEN correctOutput
    ELSE testOutputs(vals, t, j + 1,
             IF vals[j] < Half /\ t[j] # 0 THEN FALSE ELSE correctOutput)

\* Diwa::testInference; r is the result of its one inference call (the
\* functions of this section take a result from a one-element set, which
\* computes it once)
testInference(dd, hp, x, t, jv) ==
    CHOOSE out \in
        {[hp |-> r.hp, ub |-> r.ub,
          ret |-> testOutputs(ViewValues(r.hp, r.view, dd.outputNeurons, jv),
                              t, 1, TRUE)] :
            r \in {inference(dd, hp, x, jv)}} : TRUE

\* the loop over the trials, did it stop one trial early
RECURSIVE countCorrect_oneTrialShort(_, _, _, _, _, _, _, _)
countCorrect_oneTrialShort(m, dd, x, t, epoch, jvs, i, correctInference) ==
    IF i >= epoch - 1
    THEN [hp |-> m.hp, ub |-> m.ub, ret |-> correctInference]
    ELSE CHOOSE out \in
             {countCorrect_oneTrialShort(
                  [hp |-> r.hp, ub |-> m.ub \/ r.ub], dd, x, t, epoch, jvs,
                  i + 1,
                  IF r.ret THEN correctInference + 1 ELSE correctInference) :
                 r \in {testInference(dd, m.hp, x, t, jvs[i + 1])}} : TRUE

\* the loop of Diwa::calculateAccuracy, from trial i on; jvs[i + 1] is what
\* an indeterminate read of trial i yields
RECURSIVE countCorrect(_, _, _, _, _, _, _, _)
countCorrect(m, dd, x, t, epoch, jvs, i, correctInference) ==
    IF i >= epoch THEN [hp |-> m.hp, ub |-> m.ub, ret |-> correctInference]
    ELSE CHOOSE out \in
             {countCorrect([hp |-> r.hp, ub |-> m.ub \/ r.ub], dd, x, t,
                           epoch, jvs, i + 1,
                           IF r.ret THEN correctInference + 1
                           ELSE correctInference) :
                 r \in {testInference(dd, m.hp, x, t, jvs[i + 1])}} : TRUE

\* Diwa::calculateAccuracy (epoch >= 1)
calculateAccuracy(dd, hp, x, t, epoch, jvs) ==
    CHOOSE out \in
        {[hp |-> c.hp, ub |-> c.ub,
          ret |-> Quot(ToDouble(c.ret), ToDouble(epoch))] :
            c \in {countCorrect([hp |-> hp, ub |-> FALSE], dd, x, t, epoch,
                                jvs, 0, 0)}} : TRUE

\* calculateLoss, were the accuracy not subtracted from 1
calculateLoss_asAccuracy(dd, hp, x, t, epoch, jvs) ==
    calculateAccuracy(dd, hp, x, t, epoch, jvs)

\* Diwa::calculateLoss
calculateLoss(dd, hp, x, t, epoch, jvs) ==
    CHOOSE out \in
        {[hp |-> a.hp, ub |-> a.ub, ret |-> One - a.ret] :
            a \in {calculateAccuracy(dd, hp, x, t, epoch, jvs)}} : TRUE

\* the trial counts a caller passes
Epochs == 1..MaxEpoch

\* network.calculateAccuracy(x, t, epoch); the record of the call holds the
\* returned double
CalculateAccuracy ==
    /\ Usable
    /\ \E x \in Vectors(d.inputNeurons), t \in Vectors(d.outputNeurons),
          epoch \in Epochs :
          \E jvs \in [1..epoch -> Indet(heap, d)] :
          \E r \in {calculateAccuracy(d, heap, x, t, epoch, jvs)} :
              /\ heap' = r.hp
              /\ last' = Call("calculateAccuracy", <<x, t, epoch>>, NO_ERROR,
                              0, 0, 0, r.ub, NoView, <<r.ret>>, <<>>)
    /\ UNCHANGED <<d, alive, disk, hist, saved, memo, trains, topo>>

\* network.calculateLoss(x, t, epoch)
CalculateLoss ==
    /\ Usable
    /\ \E x \in Vectors(d.inputNeurons), t \in Vectors(d.outputNeurons),
          epoch \in Epochs :
          \E jvs \in [1..epoch -> Indet(heap, d)] :
          \E r \in {calculateLoss(d, heap, x, t, epoch, jvs)} :
              /\ heap' = r.hp
              /\ last' = Call("calculateLoss", <<x, t, epoch>>, NO_ERROR,
                              0, 0, 0, r.ub, NoView, <<r.ret>>, <<>>)
    /\ UNCHANGED <<d, alive, disk, hist, saved, memo, trains, topo>>

(* ------------------------------- the getters --------------------------- *)

\* network.getActivationFunction(): a const member that returns
\* this->activation, which the constructor has set
GetActivationFunction ==
    /\ alive
    /\ last' = Call("getActivationFunction", <<>>, NO_ERROR, 0, 0, 0, FALSE,
                    NoView, <<d.activation>>, <<>>)
    /\ UNCHANGED <<d, heap, alive, disk, hist, saved, memo, trains, topo>>

\* network.recommendedHiddenNeuronCount(): -1 unless both counts are
\* positive, else the square root of their product, truncated to int
RecommendedHiddenNeuronCount ==
    /\ Usable
    /\ \E n \in {d.inputNeurons * d.outputNeurons} :
       \E ret \in {IF d.inputNeurons <= 0 \/ d.outputNeurons <= 0 THEN 0 - 1
                   ELSE CHOOSE r \in 0..n :
                            r * r <= n /\ (r + 1) * (r + 1) > n} :
          last' = Call("recommendedHiddenNeuronCount", <<>>, NO_ERROR, 0, 0,
                       0, FALSE, NoView, <<ret>>, <<>>)
    /\ UNCHANGED <<d, heap, alive, disk, hist, saved, memo, trains, topo>>

\* network.recommendedHiddenLayerCount(numSamples, alpha)
RecommendedHiddenLayerCount ==
    /\ Usable
    /\ \E numSamples \in {0, 1, 2 * MaxCount}, alpha \in {0, 1} :
       \E count \in {IF d.inputNeurons <= 0 \/ d.outputNeurons <= 0
                        \/ numSamples <= 0 \/ alpha <= 0
                     THEN 0 - 1
                     ELSE numSamples
                          \div (alpha * (d.inputNeurons + d.outputNeurons))} :
          last' = Call("recommendedHiddenLayerCount", <<numSamples, alpha>>,
                       NO_ERROR, 0, 0, 0, FALSE, NoView,
                       <<IF count < 1 THEN 0 - 1 ELSE count>>, <<>>)
    /\ UNCHANGED <<d, heap, alive, disk, hist, saved, memo, trains, topo>>

(* ------------------------------ saveToFile ----------------------------- *)

\* writeToStream: size bytes of data reach the stream one by one (and data
\* is deleted)
writeToStream(stream, data, size) == stream \o SubSeq(data, 1, size)

\* for(int i = i; i < weightCount; i++) writeToStream(doubleToU8a(weights[i]), 8)
RECURSIVE writeWeights(_, _, _, _, _)
writeWeights(stream, dd, hp, i, jv) ==
    IF i >= dd.weightCount THEN stream
    ELSE writeWeights(
             writeToStream(stream, doubleToU8a(Load(hp, dd.weights, i, jv)), 8),
             dd, hp, i + 1, jv)

\* Diwa::saveToFile (hosted) from its first write on; stream is what the
\* open stream holds so far
writeModel(dd, hp, stream, jv) ==
    LET s0 == writeToStream(stream, MagicSignature, 4)
        s1 == writeToStream(s0, intToU8a(dd.inputNeurons), 4)
        s2 == writeToStream(s1, intToU8a(dd.hiddenNeurons), 4)
        s3 == writeToStream(s2, intToU8a(dd.hiddenLayers), 4)
        s4 == writeToStream(s3, intToU8a(dd.outputNeurons), 4)
        s5 == writeToStream(s4, intToU8a(dd.weightCount), 4)
        s6 == writeToStream(s5, intToU8a(dd.neuronCount), 4)
    IN  [err |-> NO_ERROR,
         stream |-> writeWeights(s6, dd, hp, 0, jv),
         ub |-> MRead(Mach(hp), dd.weights, 0, dd.weightCount).ub]

\* saveToFile without its is_open test
saveToFile_unchecked(dd, hp, open, stream, jv) ==
    writeModel(dd, hp, stream, jv)

\* Diwa::saveToFile (hosted)
saveToFile(dd, hp, open, stream, jv) ==
    IF ~open THEN [err |-> STREAM_NOT_OPEN, stream |-> stream, ub |-> FALSE]
    ELSE writeModel(dd, hp, stream, jv)

\* the weights 0..weightCount-1 as a check sees them
WeightsOf(hp, dd) == [k \in 1..dd.weightCount |-> Peek(hp, dd.weights, k - 1)]

\* network.saveToFile(outfile), outfile a stream that is not open or one
\* just opened on the (emptied) model file
SaveToFile ==
    /\ Usable
    /\ \E open \in BOOLEAN, jv \in Indet(heap, d),
          clob \in {FALSE, HasSlack(heap)} :
          \E r \in {saveToFile(d, heap, open, <<>>, jv)} :
              /\ last' = Call("saveToFile", <<open>>, r.err, 0, 0,
                              Len(r.stream), r.ub, NoView, <<>>, <<>>)
              /\ disk' = IF open THEN r.stream ELSE disk
              /\ heap' = IF open THEN Clobber(heap, clob) ELSE heap
              /\ saved' = IF open
                          THEN [valid |-> TRUE, counts |-> CountsOf(d),
                                w |-> [k \in 1..d.weightCount |->
                                         Load(heap, d.weights, k - 1, jv)],
                                hist |-> hist]
                          ELSE saved
    /\ UNCHANGED <<d, alive, hist, memo, trains, topo>>

(* ------------------------------ loadFromFile --------------------------- *)

\* an input stream: the bytes behind it, the read position, and whether
\* no read has failed yet
InStream(bytes) == [bytes |-> bytes, pos |-> 0, good |-> TRUE]

\* annFile.read(buf, n): the bytes that are there are stored; when fewer
\* than n are, the stream fails and later reads store nothing
StreamRead(st, buf, n) ==
    LET avail == IF st.good THEN Min(n, Len(st.bytes) - st.pos) ELSE 0
    IN  [st  |-> [st EXCEPT !.pos = st.pos + avail,
                            !.good = st.good /\ avail = n],
         buf |-> [k \in 1..Len(buf) |->
                    IF k <= avail THEN st.bytes[st.pos + k] ELSE buf[k]]]

\* the six "annFile.read(temp_int, 4); field = u8aToInt(temp_int);" pairs,
\* from the n-th on: the values read, in file order
RECURSIVE readInts(_, _, _, _)
readInts(st, buf, n, acc) ==
    IF n >= 6 THEN [st |-> st, ints |-> acc]
    ELSE LET r == StreamRead(st, buf, 4)
         IN  readInts(r.st, r.buf, n + 1, Append(acc, u8aToInt(r.buf)))

\* the loop of loadFromFile over the weights, did it stop one weight early
RECURSIVE readWeights_oneShort(_, _, _, _)
readWeights_oneShort(ms, dd, buf, i) ==
    IF i >= dd.weightCount - 1 THEN ms
    ELSE LET r == StreamRead(ms.st, buf, 8)
         IN  readWeights_oneShort(
                 [m |-> MStore(ms.m, dd.weights, i, u8aToDouble(r.buf)),
                  st |-> r.st],
                 dd, r.buf, i + 1)

\* for(int i = i; i < weightCount; i++) { read(temp_db, 8); weights[i] = ... }
RECURSIVE readWeights(_, _, _, _)
readWeights(ms, dd, buf, i) ==
    IF i >= dd.weightCount THEN ms
    ELSE LET r == StreamRead(ms.st, buf, 8)
         IN  readWeights([m |-> MStore(ms.m, dd.weights, i, u8aToDouble(r.buf)),
                          st |-> r.st],
                         dd, r.buf, i + 1)

\* readModel, did initialize leave the weightCount and neuronCount of the
\* header in place
readModel_trustingHeader(dd, hp, st, ji, jv, ok1, ok2, seed) ==
    LET ri == readInts(st, intToU8a(ji) \o <<0>>, 0, <<>>)
        d1 == [dd EXCEPT !.inputNeurons = ri.ints[1],
                         !.hiddenNeurons = ri.ints[2],
                         !.hiddenLayers = ri.ints[3],
                         !.outputNeurons = ri.ints[4],
                         !.weightCount = ri.ints[5],
                         !.neuronCount = ri.ints[6]]
        i0 == initialize(d1, hp, d1.inputNeurons, d1.hiddenLayers,
                         d1.hiddenNeurons, d1.outputNeurons, TRUE, ok1, seed)
        i1 == [i0 EXCEPT !.d.weightCount = ri.ints[5],
                         !.d.neuronCount = ri.ints[6]]
        i2 == initializeWeights(i1.d, i1.heap, ok2)
        rw == readWeights([m |-> [Mach(i2.heap) EXCEPT !.ub = i1.ub],
                           st |-> ri.st],
                          i2.d, doubleToU8a(jv) \o <<0>>, 0)
    IN  IF i1.err # NO_ERROR
        THEN [d |-> i1.d, heap |-> i1.heap, alloc |-> i1.alloc, ub |-> i1.ub,
              err |-> i1.err, moved |-> ri.st.pos]
        ELSE IF i2.err # NO_ERROR
        THEN [d |-> i2.d, heap |-> i2.heap, alloc |-> i1.alloc, ub |-> i1.ub,
              err |-> i2.err, moved |-> ri.st.pos]
        ELSE [d |-> i2.d, heap |-> rw.m.hp, alloc |-> i1.alloc + i2.alloc,
              ub |-> rw.m.ub, err |-> NO_ERROR, moved |-> rw.st.pos]

\* Diwa::loadFromFile (hosted) after its magic check, st the stream as the
\* read of the magic left it.  ji, jv: what the uninitialized buffers
\* temp_int and temp_db hold; ok1, ok2: whether the two mallocs find memory;
\* seed: the state of rand()
readModel(dd, hp, st, ji, jv, ok1, ok2, seed) ==
    LET ri == readInts(st, intToU8a(ji) \o <<0>>, 0, <<>>)
        d1 == [dd EXCEPT !.inputNeurons = ri.ints[1],
                         !.hiddenNeurons = ri.ints[2],
                         !.hiddenLayers = ri.ints[3],
                         !.outputNeurons = ri.ints[4],
                         !.weightCount = ri.ints[5],
                         !.neuronCount = ri.ints[6]]
        i1 == initialize(d1, hp, d1.inputNeurons, d1.hiddenLayers,
                         d1.hiddenNeurons, d1.outputNeurons, TRUE, ok1, seed)
        i2 == initializeWeights(i1.d, i1.heap, ok2)
        rw == readWeights([m |-> [Mach(i2.heap) EXCEPT !.ub = i1.ub],
                           st |-> ri.st],
                          i2.d, doubleToU8a(jv) \o <<0>>, 0)
    IN  IF i1.err # NO_ERROR
        THEN [d |-> i1.d, heap |-> i1.heap, alloc |-> i1.alloc, ub |-> i1.ub,
              err |-> i1.err, moved |-> ri.st.pos]
        ELSE IF i2.err # NO_ERROR
        THEN [d |-> i2.d, heap |-> i2.heap, alloc |-> i1.alloc, ub |-> i1.ub,
              err |-> i2.err, moved |-> ri.st.pos]
        ELSE [d |-> i2.d, heap |-> rw.m.hp, alloc |-> i1.alloc + i2.alloc,
              ub |-> rw.m.ub, err |-> NO_ERROR, moved |-> rw.st.pos]

\* loadFromFile without the comparison of the magic
loadFromFile_anyMagic(dd, hp, open, bytes, jm, ji, jv, ok1, ok2, seed) ==
    IF ~open
    THEN [d |-> dd, heap |-> hp, alloc |-> 0, ub |-> FALSE,
          err |-> STREAM_NOT_OPEN, moved |-> 0]
    ELSE readModel(dd, hp, StreamRead(InStream(bytes), jm \o <<0>>, 4).st,
                   ji, jv, ok1, ok2, seed)

\* loadFromFile, did it report a stream that ends inside the header
loadFromFile_checkingReads(dd, hp, open, bytes, jm, ji, jv, ok1, ok2, seed) ==
    LET quiet == [d |-> dd, heap |-> hp, alloc |-> 0, ub |-> FALSE]
        rm == StreamRead(InStream(bytes), jm \o <<0>>, 4)
    IN  IF ~open THEN quiet @@ [err |-> STREAM_NOT_OPEN, moved |-> 0]
        ELSE IF SubSeq(rm.buf, 1, 4) # MagicSignature
        THEN quiet @@ [err |-> INVALID_MAGIC_NUMBER, moved |-> rm.st.pos]
        ELSE IF Len(bytes) < 28
        THEN quiet @@ [err |-> MODEL_READ_ERROR, moved |-> Len(bytes)]
        ELSE readModel(dd, hp, rm.st, ji, jv, ok1, ok2, seed)

\* Diwa::loadFromFile (hosted).  jm: what the uninitialized buffer magic
\* holds
loadFromFile(dd, hp, open, bytes, jm, ji, jv, ok1, ok2, seed) ==
    LET quiet == [d |-> dd, heap |-> hp, alloc |-> 0, ub |-> FALSE]
        rm == StreamRead(InStream(bytes), jm \o <<0>>, 4)
    IN  IF ~open THEN quiet @@ [err |-> STREAM_NOT_OPEN, moved |-> 0]
        ELSE IF SubSeq(rm.buf, 1, 4) # MagicSignature
        THEN quiet @@ [err |-> INVALID_MAGIC_NUMBER, moved |-> rm.st.pos]
        ELSE readModel(dd, hp, rm.st, ji, jv, ok1, ok2, seed)

\* seq with its k-th element replaced by b
Patch(seq, k, b) == [n \in 1..Len(seq) |-> IF n = k THEN b ELSE seq[n]]

\* what a stream opened for loading can hold: the model file, the file
\* with one byte of its magic raised or lowered, the file with a header
\* that declares one weight less and one neuron more, or a prefix of the
\* file that ends inside the magic, after it, inside the header or after it
StreamContents(file) ==
    {file}
    \cup {Patch(Patch(file, 21, file[21] - 1), 25, file[25] + 1) :
             k \in {n \in {28} \cap DOMAIN file :
                        file[21] > 0 /\ file[25] < 255}}
    \cup {Patch(file, 1, file[1] + 1) : k \in {1} \cap DOMAIN file}
    \cup {Patch(file, 4, file[4] - 1) : k \in {4} \cap DOMAIN file}
    \cup {SubSeq(file, 1, n) : n \in {2, 16, 28} \cap DOMAIN file}

\* the stream gets past the magic check for some content of the
\* uninitialized buffer
PastMagic(bytes) ==
    \A k \in 1..4 : k <= Len(bytes) => bytes[k] = MagicSignature[k]

\* network.loadFromFile(infile), infile a stream that is not open or one
\* just opened.  What rand() returns during the call reaches no cell that
\* is read again, so the generator's state is not an input here
LoadFromFile ==
    /\ alive
    /\ \E open \in BOOLEAN :
       \E bytes \in (IF open THEN StreamContents(disk) ELSE {disk}) :
       \E jm \in (IF open /\ Len(bytes) < 4 /\ PastMagic(bytes)
                  THEN {<<0, 0, 0, 0>>, MagicSignature} ELSE {<<0, 0, 0, 0>>}) :
       \E past \in {open /\ PastMagic(bytes) /\ (Len(bytes) >= 4
                                                  \/ jm = MagicSignature)} :
       \E ji \in (IF past /\ Len(bytes) < 28 THEN IndetInts ELSE {0}),
          ok1 \in (IF past THEN BOOLEAN ELSE {TRUE}) :
       \E ok2 \in (IF past /\ ok1 THEN BOOLEAN ELSE {TRUE}),
          clob \in {FALSE, past /\ HasSlack(heap)} :
       \E jv \in (IF past /\ ok1 /\ ok2 /\ Len(bytes) < Len(disk)
                  THEN IndetVals ELSE {0}) :
       \E r \in {loadFromFile(d, Clobber(heap, clob), open, bytes, jm, ji,
                              jv, ok1, ok2, 0)} :
       \E s \in {Settle(r.heap, r.d)},
          hit \in {r.err \notin {STREAM_NOT_OPEN, INVALID_MAGIC_NUMBER}} :
          /\ d' = IF hit THEN s.d ELSE d
          /\ heap' = IF hit THEN s.heap ELSE heap
          /\ last' = Call("loadFromFile", <<open, bytes, hist>>, r.err,
                          r.alloc, IF hit THEN s.lost ELSE 0, r.moved,
                          r.ub, NoView, <<>>, <<>>)
          /\ hist' = IF ~hit THEN hist
                     ELSE IF r.err # NO_ERROR THEN "failed"
                     ELSE "other"
          /\ memo' = IF hit THEN {} ELSE memo
    /\ UNCHANGED <<alive, disk, saved, trains, topo>>

(* ------------------------- loadFromFile (Arduino) ---------------------- *)

\* what memcmp(a, b, 4) can return: 0 for equal blocks, otherwise a value
\* with the sign of the first differing byte's difference; a build may
\* return -1 or 1, the difference, or any other value of that sign
memcmp(a, b) ==
    IF \A k \in 1..4 : a[k] = b[k] THEN {0}
    ELSE LET k == CHOOSE n \in 1..4 :
                      a[n] # b[n] /\ \A j \in 1..(n - 1) : a[j] = b[j]
         IN  IF a[k] < b[k] THEN {0 - 1, Min(a[k] - b[k], 0 - 2)}
             ELSE {1, Max(a[k] - b[k], 2)}

\* Diwa::loadFromFile(File) of the Arduino build.  cmp: what memcmp
\* returned for the four bytes in magic; jm, ji, jv: what the uninitialized
\* buffers hold; ok: whether malloc finds memory.  initialize is called
\* with randomize off, so it allocates nothing and draws no random number
loadFromFile_File(dd, hp, bytes, jm, ji, jv, cmp, ok) ==
    LET rm == StreamRead(InStream(bytes), jm, 4)
        ri == readInts(rm.st, intToU8a(ji), 0, <<>>)
        d1 == [dd EXCEPT !.inputNeurons = ri.ints[1],
                         !.hiddenNeurons = ri.ints[2],
                         !.hiddenLayers = ri.ints[3],
                         !.outputNeurons = ri.ints[4],
                         !.weightCount = ri.ints[5],
                         !.neuronCount = ri.ints[6]]
        i1 == initialize(d1, hp, d1.inputNeurons, d1.hiddenLayers,
                         d1.hiddenNeurons, d1.outputNeurons, FALSE, TRUE, 0)
        i2 == initializeWeights(i1.d, i1.heap, ok)
        rw == readWeights([m |-> [Mach(i2.heap) EXCEPT !.ub = i1.ub],
                           st |-> ri.st],
                          i2.d, doubleToU8a(jv), 0)
    IN  IF cmp = 1
        THEN [d |-> dd, heap |-> hp, alloc |-> 0, ub |-> FALSE,
              err |-> INVALID_MAGIC_NUMBER, moved |-> rm.st.pos]
        ELSE IF i2.err # NO_ERROR
        THEN [d |-> i2.d, heap |-> i2.heap, alloc |-> 0, ub |-> i1.ub,
              err |-> i2.err, moved |-> ri.st.pos]
        ELSE [d |-> i2.d, heap |-> rw.m.hp, alloc |-> i2.alloc,
              ub |-> rw.m.ub, err |-> NO_ERROR, moved |-> rw.st.pos]

\* network.loadFromFile(annFile), annFile an Arduino File just opened
LoadFromFile_File ==
    /\ alive
    /\ \E bytes \in StreamContents(disk) :
       \E jm \in (IF Len(bytes) < 4 THEN {<<0, 0, 0, 0>>, MagicSignature}
                  ELSE {<<0, 0, 0, 0>>}) :
       \E cmp \in memcmp(StreamRead(InStream(bytes), jm, 4).buf,
                         MagicSignature) :
       \E ji \in (IF cmp # 1 /\ Len(bytes) < 28 THEN IndetInts ELSE {0}),
          ok \in (IF cmp # 1 THEN BOOLEAN ELSE {TRUE}),
          clob \in {FALSE, cmp # 1 /\ HasSlack(heap)} :
       \E jv \in (IF cmp # 1 /\ ok /\ Len(bytes) < Len(disk)
                  THEN IndetVals ELSE {0}) :
       \E r \in {loadFromFile_File(d, Clobber(heap, clob), bytes, jm, ji, jv,
                                   cmp, ok)} :
       \E s \in {Settle(r.heap, r.d)},
          hit \in {r.err # INVALID_MAGIC_NUMBER} :
          /\ d' = IF hit THEN s.d ELSE d
          /\ heap' = IF hit THEN s.heap ELSE heap
          /\ last' = Call("loadFromFile(File)", <<cmp, bytes, hist>>, r.err,
                          r.alloc, IF hit THEN s.lost ELSE 0, r.moved,
                          r.ub, NoView, <<>>, <<>>)
          /\ hist' = IF ~hit THEN hist
                     ELSE IF r.err # NO_ERROR THEN "failed"
                     ELSE "other"
          /\ memo' = IF hit THEN {} ELSE memo
    /\ UNCHANGED <<alive, disk, saved, trains, topo>>

(* -------------------- the static functions, called -------------------- *)

\* no member function was called on the instance, no static function yet
NothingCalled == last.op = "Diwa"

\* the doubles an activation function is applied to
ActivationInputs == ToDouble(0 - MaxInput)..ToDouble(MaxInput)

\* DiwaActivationFunc::sigmoid(x); the record of the call holds the result
CallSigmoid ==
    /\ NothingCalled
    /\ \E x \in ActivationInputs :
          last' = Call("sigmoid", <<x>>, NO_ERROR, 0, 0, 0, FALSE, NoView,
                       <<sigmoid(x)>>, <<>>)
    /\ UNCHANGED <<d, alive, heap, disk, hist, saved, memo, trains, topo>>

\* DiwaActivationFunc::gaussian(x)
CallGaussian ==
    /\ NothingCalled
    /\ \E x \in ActivationInputs :
          last' = Call("gaussian", <<x>>, NO_ERROR, 0, 0, 0, FALSE, NoView,
                       <<gaussian(x)>>, <<>>)
    /\ UNCHANGED <<d, alive, heap, disk, hist, saved, memo, trains, topo>>

\* 32-bit ints: the powers of two and their neighbours, of both signs, the
\* extremes, and values with the top bit of every byte set or clear
Ints32 ==
    {s * 2 ^ k + j : s \in {-1, 1}, k \in 0..30, j \in {-1, 0, 1}}
    \cup {2147483647, (0 - 2147483647) - 1, 0 - 2139062144, 2139062143,
          8421504, 0 - 8421505}

\* DiwaConv::intToU8a(value); the record of the call holds the four bytes
CallIntToU8a ==
    /\ NothingCalled
    /\ \E value \in Ints32 :
          last' = Call("intToU8a", <<value>>, NO_ERROR, 0, 0, 0, FALSE,
                       NoView, intToU8a(value), <<>>)
    /\ UNCHANGED <<d, alive, heap, disk, hist, saved, memo, trains, topo>>

\* DiwaConv::u8aToInt(bytes), on the bytes intToU8a has just returned
CallU8aToInt ==
    /\ last.op = "intToU8a"
    /\ last' = Call("u8aToInt", <<last.vals>>, NO_ERROR, 0, 0, 0, FALSE,
                    NoView, <<u8aToInt(last.vals)>>, <<>>)
    /\ UNCHANGED <<d, alive, heap, disk, hist, saved, memo, trains, topo>>

(* ---------------------------- specifications -------------------------- *)

Next ==
    \/ Construct
    \/ Destroy
    \/ Initialize
    \/ Inference
    \/ Train
    \/ SaveToFile
    \/ LoadFromFile
    \/ LoadFromFile_File
    \/ CalculateAccuracy
    \/ CalculateLoss
    \/ GetActivationFunction
    \/ RecommendedHiddenNeuronCount
    \/ RecommendedHiddenLayerCount

\* setting a network up, with every topology
NextInit ==
    \/ Construct
    \/ Destroy
    \/ Initialize

\* running a network
NextNet ==
    \/ Construct
    \/ Destroy
    \/ Initialize
    \/ Inference
    \/ Train
    \/ SaveToFile

\* saving and loading a network: a network is set up and trained, the
\* model file is written once, and from then on instances load it
SetUp == ~saved.valid /\ Initialize

Teach == ~saved.valid /\ Train

WriteModel == ~saved.valid /\ SaveToFile

LoadModel == saved.valid /\ LoadFromFile

NextFile ==
    \/ Construct
    \/ Destroy
    \/ SetUp
    \/ Teach
    \/ WriteModel
    \/ LoadModel

\* setting a network up, training it and measuring it
NextEval ==
    \/ Construct
    \/ Destroy
    \/ Initialize
    \/ Train
    \/ CalculateAccuracy
    \/ CalculateLoss

\* the static functions of DiwaActivationFunc and DiwaConv
NextStatic ==
    \/ CallSigmoid
    \/ CallGaussian
    \/ CallIntToU8a
    \/ CallU8aToInt

SpecInit == Init /\ [][NextInit]_vars

SpecNet == InitWith(Shapes) /\ [][NextNet]_vars

\* inference and train, also on a network with two hidden layers
SpecDeep ==
    InitWith(Shapes \cup {<<Width, MaxCount, Width, Width>>}) /\ [][NextNet]_vars

SpecFile == InitWith(Shapes) /\ [][NextFile]_vars

\* accuracy and loss are also measured on a network with two inputs and
\* no hidden layer, whose weighted sum can be exactly 0
SpecEval ==
    InitWith(Shapes \cup {<<MaxCount, 0, 0, Width>>}) /\ [][NextEval]_vars

SpecCodes == InitWith(Shapes \cup SignedShapes) /\ [][NextFile]_vars

\* a network is set up and trained, the operations that only read it are
\* called, and the model file is written once
SpecFrame ==
    InitWith(Shapes)
    /\ [][Construct \/ Destroy \/ SetUp \/ Teach \/ Inference
          \/ CalculateAccuracy \/ CalculateLoss \/ WriteModel
          \/ GetActivationFunction \/ RecommendedHiddenNeuronCount
          \/ RecommendedHiddenLayerCount]_vars

\* a model file is written and then loaded by the Arduino build
SpecArduino ==
    InitWith(Shapes)
    /\ [][Construct \/ Destroy \/ SetUp \/ WriteModel
          \/ (saved.valid /\ LoadFromFile_File)]_vars

SpecStatic == InitWith(Shapes) /\ [][NextStatic]_vars

Spec == Init /\ [][Next]_vars

(* -------------------------------- claims ------------------------------- *)

\* the literal values the claims speak of
Diwa4 == <<100, 105, 119, 97>>

NoCounts == <<0, 0, 0, 0, 0, 0>>

\* the arguments of the last call, when it was initialize
ArgI == last.arg[1]
ArgL == last.arg[2]
ArgH == last.arg[3]
ArgO == last.arg[4]
ArgRandomize == last.arg[5]
ArgMemory == last.arg[6]

\* the last call was initialize with a topology that is not all-zero
InitializedSome ==
    /\ last.op = "initialize"
    /\ <<ArgI, ArgL, ArgH, ArgO>> # <<0, 0, 0, 0>>

\* the case of C1: the last call loaded exactly the bytes of the model file
\* from an open stream into an instance that was as its constructor left
\* it, and the file was written by a network that initialize set up with
\* randomize on and that was trained or not since
RoundTripCase ==
    /\ last.op = "loadFromFile"
    /\ last.arg[1]
    /\ last.arg[2] = disk
    /\ last.arg[3] = "fresh"
    /\ saved.valid
    /\ saved.hist = "init"

\* the instance has the counts and the weights the saved one had
SameAsSaved ==
    /\ CountsOf(d) = saved.counts
    /\ WeightsOf(heap, d) = saved.w

\* C1 as stated: saving a network set up by initialize (randomize on) and
\* trained any number of times, then loading exactly those bytes into a
\* fresh instance, returns NO_ERROR and gives the fresh instance the same
\* six counts and bit-identical weights.
C1_RoundTrip ==
    RoundTripCase => (last.err = NO_ERROR /\ SameAsSaved)

\* C1 amended: the load returns NO_ERROR with both arenas allocated and the
\* same six counts and weights, or, when one of its two allocations fails,
\* MALLOC_FAILED.
C1_RoundTripUnlessMallocFails ==
    RoundTripCase =>
        \/ last.err = NO_ERROR /\ last.alloc = 2 /\ SameAsSaved
        \/ last.err = MALLOC_FAILED /\ last.alloc < 2

\* a trained network with weights was saved and loaded back into a fresh
\* instance
C1_Witness ==
    /\ RoundTripCase
    /\ last.err = NO_ERROR
    /\ trains > 0
    /\ d.weightCount > 0
    /\ d.hiddenLayers > 0
    /\ \E k \in 1..Len(saved.w) : saved.w[k] \notin {0 - Half, Half}

\* the case of C2: the last call was loadFromFile on an open stream that
\* holds four bytes or more, the first four not 'd','i','w','a'
InvalidMagicCase ==
    /\ last.op = "loadFromFile"
    /\ last.arg[1]
    /\ Len(last.arg[2]) >= 4
    /\ SubSeq(last.arg[2], 1, 4) # Diwa4

\* C2: loadFromFile on an open stream whose first 4 bytes are not
\* 'd','i','w','a' returns INVALID_MAGIC_NUMBER, allocates nothing and leaves
\* every field of the instance and every cell of its arenas as they were.
C2_InvalidMagic ==
    [][InvalidMagicCase' =>
          /\ last'.err = INVALID_MAGIC_NUMBER
          /\ last'.alloc = 0
          /\ d' = d
          /\ heap' = heap]_vars

\* a file with a damaged magic was refused by an initialized network
C2_Witness ==
    /\ InvalidMagicCase
    /\ last.err = INVALID_MAGIC_NUMBER
    /\ Len(last.arg[2]) > 28
    /\ hist = "init"
    /\ d.weightCount > 0

\* C3: saveToFile and loadFromFile on a stream that is not open return
\* STREAM_NOT_OPEN, move no byte, and leave the file, every field of the
\* instance and every cell of its arenas as they were.
C3_StreamNotOpen ==
    [][(last'.op \in {"saveToFile", "loadFromFile"} /\ ~last'.arg[1]) =>
          /\ last'.err = STREAM_NOT_OPEN
          /\ last'.moved = 0
          /\ disk' = disk
          /\ d' = d
          /\ heap' = heap]_vars

\* an initialized network with weights was asked to save to a stream that
\* is not open
C3_Witness ==
    /\ last.op = "saveToFile"
    /\ ~last.arg[1]
    /\ last.err = STREAM_NOT_OPEN
    /\ hist = "init"
    /\ d.weightCount > 0
    /\ disk = <<>>

\* byte n (n = 0..3) holds bits 8n..8n+7 of the 32-bit value v (\div rounds
\* down, which gives the bits of a negative v in two's complement)
Bits32(v) == [n \in 1..4 |-> (v \div (256 ^ (n - 1))) % 256]

\* bytes from..from+n-1 (counted from 0) of the model file
FileBytes(from, n) == SubSeq(disk, from + 1, from + n)

\* C4: a successful saveToFile writes 28 + 8*weightCount bytes: 'd','i','w','a',
\* then inputNeurons, hiddenNeurons, hiddenLayers, outputNeurons, weightCount
\* and neuronCount, each least significant byte first, then the 8 bytes of
\* each weight in arena order.
C4_BinaryLayout ==
    (last.op = "saveToFile" /\ last.err = NO_ERROR) =>
        /\ last.moved = 28 + 8 * d.weightCount
        /\ Len(disk) = 28 + 8 * d.weightCount
        /\ FileBytes(0, 4) = Diwa4
        /\ FileBytes(4, 4) = Bits32(d.inputNeurons)
        /\ FileBytes(8, 4) = Bits32(d.hiddenNeurons)
        /\ FileBytes(12, 4) = Bits32(d.hiddenLayers)
        /\ FileBytes(16, 4) = Bits32(d.outputNeurons)
        /\ FileBytes(20, 4) = Bits32(d.weightCount)
        /\ FileBytes(24, 4) = Bits32(d.neuronCount)
        /\ \A k \in 0..(d.weightCount - 1) :
              FileBytes(28 + 8 * k, 8) = ObjectRep(saved.w[k + 1])

\* a network with a hidden layer and trained weights was saved
C4_Witness ==
    /\ last.op = "saveToFile"
    /\ last.err = NO_ERROR
    /\ hist = "init"
    /\ d.hiddenLayers > 0
    /\ d.weightCount > 1
    /\ trains > 0

\* C5: after a successful initialize(i, L, h, o) that is not all-zero,
\* weightCount = (L>0 ? (i+1)*h + (L-1)*(h+1)*h : 0) + (L>0 ? h+1 : i+1)*o
\* and neuronCount = i + h*L + o.
C5_SizeFormulas ==
    (InitializedSome /\ last.err = NO_ERROR) =>
        /\ d.weightCount =
              (IF ArgL > 0
               THEN (ArgI + 1) * ArgH + (ArgL - 1) * (ArgH + 1) * ArgH
               ELSE 0)
              + (IF ArgL > 0 THEN ArgH + 1 ELSE ArgI + 1) * ArgO
        /\ d.neuronCount = ArgI + ArgH * ArgL + ArgO

\* a network with two hidden layers was initialized
C5_Witness ==
    /\ InitializedSome
    /\ last.err = NO_ERROR
    /\ ArgL > 1
    /\ ArgH > 0
    /\ ArgI > 0
    /\ ArgO > 0

\* C6: on a network set up by initialize, an inference call returns the
\* same view location and the same output values as every earlier inference
\* call with the same input made since the weights last changed (since the
\* last train, initialize or loadFromFile), whatever inference calls with
\* other inputs and saveToFile calls came between.
C6_Determinism ==
    [][(last'.op = "inference" /\ hist = "init") =>
          \A e \in memo :
              e.x = last'.arg[1] =>
                  (last'.view = e.view /\ last'.vals = e.vals)]_vars

\* an input was inferred again after another input was inferred, on a
\* network with a hidden layer
C6_Witness ==
    /\ last.op = "inference"
    /\ last.arg[2]
    /\ hist = "init"
    /\ d.hiddenLayers > 0
    /\ Len(last.vals) > 0
    /\ \E e \in memo : e.x # last.arg[1]

\* C7: right after default construction, and after initialize(0,0,0,0) on
\* the instance so constructed, the six counts are 0 and the arena
\* reference is null.
C7_EmptyState ==
    hist = "fresh" => (CountsOf(d) = NoCounts /\ d.weights = NullPtr)

\* C8: a successful initialize that is not all-zero with randomize off
\* allocates the arena, and the activation and delta regions lie in it at
\* offsets weightCount and weightCount + neuronCount.
C8_AllocatesWithoutRandomize ==
    (InitializedSome /\ ~ArgRandomize /\ last.err = NO_ERROR) =>
        /\ last.alloc = 1
        /\ d.weights.base \in Arenas
        /\ heap[d.weights.base].live
        /\ d.weights.off = 0
        /\ d.outputs = PtrAdd(d.weights, d.weightCount)
        /\ d.deltas = PtrAdd(d.weights, d.weightCount + d.neuronCount)

\* the last call was a successful initialize with randomize on
Randomized ==
    /\ InitializedSome
    /\ ArgRandomize
    /\ last.err = NO_ERROR

\* C9 as stated: after initialize with randomize on, every weight w
\* satisfies -0.5 <= w < 0.5.
C9_HalfOpenRange ==
    Randomized =>
        \A k \in 0..(d.weightCount - 1) :
            /\ 0 - Half <= Peek(heap, d.weights, k)
            /\ Peek(heap, d.weights, k) < Half

\* C9 amended: after initialize with randomize on, every weight w satisfies
\* -0.5 <= w <= 0.5.
C9_ClosedRange ==
    Randomized =>
        \A k \in 0..(d.weightCount - 1) :
            /\ 0 - Half <= Peek(heap, d.weights, k)
            /\ Peek(heap, d.weights, k) <= Half

\* initialize drew RAND_MAX from rand(): a weight is exactly 0.5
C9_Witness ==
    /\ Randomized
    /\ \E k \in 0..(d.weightCount - 1) : Peek(heap, d.weights, k) = Half

\* C10: initialize with a topology that is not all-zero and randomize on
\* returns MALLOC_FAILED exactly when malloc finds no memory and NO_ERROR
\* otherwise; when it returns MALLOC_FAILED it allocated nothing, its arena
\* reference is null and it made no access through it.
C10_AllocationFailure ==
    (InitializedSome /\ ArgRandomize) =>
        /\ last.err \in {NO_ERROR, MALLOC_FAILED}
        /\ (last.err = MALLOC_FAILED) = ~ArgMemory
        /\ last.err = MALLOC_FAILED =>
              (last.alloc = 0 /\ d.weights = NullPtr /\ ~last.ub)
        /\ last.err = NO_ERROR =>
              (last.alloc = 1 /\ \A k \in 0..(d.weightCount - 1) :
                                    Stored(heap, d.weights, k))

\* initialize of a network with weights met a malloc that failed
C10_Witness ==
    /\ InitializedSome
    /\ ArgRandomize
    /\ ~ArgMemory
    /\ last.err = MALLOC_FAILED
    /\ d.weightCount > 0

\* the arguments and the result of the last call, when it was
\* calculateAccuracy or calculateLoss
ArgTarget == last.arg[2]
ArgEpoch == last.arg[3]
Returned == last.vals[1]

\* the last call was op, on a network that initialize set up with randomize
\* on (and that was trained or not since)
Measured(op) ==
    /\ last.op = op
    /\ hist = "init"

\* C11: calculateAccuracy over N >= 1 trials returns correct/N for a count
\* of correct trials in 0..N, a value in [0, 1]; calculateLoss called next
\* with the same arguments on the unchanged network returns exactly
\* 1 - that accuracy.
C11_AccuracyAndLoss ==
    [][/\ Measured("calculateAccuracy")' =>
              /\ 0 <= Returned' /\ Returned' <= One
              /\ \E c \in 0..ArgEpoch' :
                    Returned' = Quot(ToDouble(c), ToDouble(ArgEpoch'))
       /\ (Measured("calculateAccuracy") /\ Measured("calculateLoss")'
             /\ last'.arg = last.arg) =>
              Returned' = One - Returned]_vars

\* calculateLoss was called with more than one trial on a trained network
\* that passes its trials
C11_Witness ==
    /\ Measured("calculateLoss")
    /\ trains > 0
    /\ ArgEpoch > 1
    /\ Returned = 0

\* the activation of output neuron j, where the last forward pass left it
Activation(j) ==
    Peek(heap, d.outputs,
         d.inputNeurons + d.hiddenNeurons * d.hiddenLayers + j - 1)

\* every output neuron whose target is not 0 has an activation >= 0.5
TrialRule ==
    \A j \in 1..d.outputNeurons : ArgTarget[j] # 0 => Activation(j) >= Half

SigmoidOf == last.arg[1]
SigmoidIs == last.vals[1]

\* C13 as stated: sigmoid returns exactly 0.0 for every x <= -30 and
\* exactly 1.0 for every x >= 30, the bounds themselves included.
C13_SaturationAtBounds ==
    last.op = "sigmoid" =>
        /\ SigmoidOf <= ToDouble(DIWA_ACTFUNC_LOWER_BOUND) => SigmoidIs = 0
        /\ SigmoidOf >= ToDouble(DIWA_ACTFUNC_UPPER_BOUND) => SigmoidIs = One

\* C13 amended: sigmoid returns exactly 0.0 for every x < -30 and exactly
\* 1.0 for every x > 30; for -30 <= x <= 30, the bounds included, it
\* returns 1 / (1 + exp(-x)), which is strictly between 0 and 1.
C13_SaturationBeyondBounds ==
    last.op = "sigmoid" =>
        /\ SigmoidOf < ToDouble(DIWA_ACTFUNC_LOWER_BOUND) => SigmoidIs = 0
        /\ SigmoidOf > ToDouble(DIWA_ACTFUNC_UPPER_BOUND) => SigmoidIs = One
        /\ (/\ SigmoidOf >= ToDouble(DIWA_ACTFUNC_LOWER_BOUND)
            /\ SigmoidOf <= ToDouble(DIWA_ACTFUNC_UPPER_BOUND)) =>
               (0 < SigmoidIs /\ SigmoidIs < One)

\* sigmoid was applied to the upper bound itself and did not return 1.0
C13_Witness ==
    /\ last.op = "sigmoid"
    /\ SigmoidOf = ToDouble(DIWA_ACTFUNC_UPPER_BOUND)
    /\ SigmoidIs < One

\* bit k of the 32-bit two's complement representation of v (bit 31 is
\* the sign)
Bit(v, k) ==
    IF k = 31 THEN (IF v < 0 THEN 1 ELSE 0) ELSE (v \div 2 ^ k) % 2

\* bits 8n .. 8n+7 of v as a number, (v >> 8n) mod 256
ByteOfBits(v, n) ==
    Bit(v, 8 * n) + 2 * Bit(v, 8 * n + 1) + 4 * Bit(v, 8 * n + 2)
    + 8 * Bit(v, 8 * n + 3) + 16 * Bit(v, 8 * n + 4)
    + 32 * Bit(v, 8 * n + 5) + 64 * Bit(v, 8 * n + 6)
    + 128 * Bit(v, 8 * n + 7)

\* C15: for every signed 32-bit v, intToU8a(v)[n] = (v >> 8n) mod 256 for
\* n = 0..3, and u8aToInt of these four bytes is v again.
C15_IntCodecRoundTrip ==
    [][/\ last'.op = "intToU8a" =>
              \A n \in 0..3 : last'.vals[n + 1] = ByteOfBits(last'.arg[1], n)
       /\ (last.op = "intToU8a" /\ last'.op = "u8aToInt") =>
              (last'.arg[1] = last.vals /\ last'.vals[1] = last.arg[1])]_vars

\* a negative value with the top bit of every byte set came back from its
\* four bytes
C15_Witness ==
    /\ last.op = "u8aToInt"
    /\ last.arg[1] = <<128, 128, 128, 128>>
    /\ last.vals[1] = 0 - 2139062144

\* the error codes no function returns
Reserved == {INVALID_PARAM_VALUES, MODEL_READ_ERROR, MODEL_SAVE_ERROR}

\* the last call was loadFromFile on an open stream that holds the magic
\* and ends before the header and the weights the file declares
TruncatedLoadCase ==
    /\ last.op = "loadFromFile"
    /\ last.arg[1]
    /\ Len(last.arg[2]) >= 4
    /\ Len(last.arg[2]) < Len(disk)
    /\ SubSeq(last.arg[2], 1, 4) = Diwa4

\* the last call was initialize with a negative count
NegativeInitializeCase ==
    /\ last.op = "initialize"
    /\ (ArgI < 0 \/ ArgL < 0 \/ ArgH < 0 \/ ArgO < 0)

\* C14 as stated: no operation returns INVALID_PARAM_VALUES,
\* MODEL_READ_ERROR or MODEL_SAVE_ERROR; loadFromFile on an open stream
\* with a valid magic that ends early returns NO_ERROR; initialize with a
\* negative count does not return INVALID_PARAM_VALUES.
C14_ReservedCodes ==
    /\ last.err \notin Reserved
    /\ TruncatedLoadCase => last.err = NO_ERROR
    /\ NegativeInitializeCase => last.err # INVALID_PARAM_VALUES

\* C14 amended: no operation returns one of the three reserved codes;
\* loadFromFile on an open stream with a valid magic that ends early
\* returns NO_ERROR, or MALLOC_FAILED when one of its allocations fails;
\* initialize with a negative count returns NO_ERROR or MALLOC_FAILED.
C14_ReservedCodesUnlessMallocFails ==
    /\ last.err \notin Reserved
    /\ TruncatedLoadCase => last.err \in {NO_ERROR, MALLOC_FAILED}
    /\ (TruncatedLoadCase /\ last.err = MALLOC_FAILED) => last.alloc < 2
    /\ NegativeInitializeCase => last.err \in {NO_ERROR, MALLOC_FAILED}

\* a load from a stream that ends inside the header reported no error
C14_Witness ==
    /\ TruncatedLoadCase
    /\ Len(last.arg[2]) < 28
    /\ last.err = NO_ERROR

\* The layers that have weights are numbered 0 .. hiddenLayers, the last
\* one being the output layer.  The number of units of the layer before
\* layer l, and of layer l itself:
PrevWidth(dd, l) == IF l = 0 THEN dd.inputNeurons ELSE dd.hiddenNeurons

LayerWidth(dd, l) ==
    IF l = dd.hiddenLayers THEN dd.outputNeurons ELSE dd.hiddenNeurons

\* the index of the first weight of layer l
BlockStart(dd, l) ==
    IF l = 0 THEN 0
    ELSE (dd.inputNeurons + 1) * dd.hiddenNeurons
         + (l - 1) * (dd.hiddenNeurons + 1) * dd.hiddenNeurons

\* the index of the first weight (the bias weight) of neuron j of layer l
RowStart(dd, l, j) == BlockStart(dd, l) + j * (PrevWidth(dd, l) + 1)

\* the index, in the activation region, of the first unit of the layer
\* before layer l
PrevStart(dd, l) ==
    IF l = 0 THEN 0 ELSE dd.inputNeurons + (l - 1) * dd.hiddenNeurons

\* the places <<l, j, c>> of the weights: weight c of neuron j of layer l
WeightPlaces(dd) ==
    {<<l, j, c>> \in (0..dd.hiddenLayers) \X (0..(MaxCount - 1))
                     \X (0..MaxCount) :
        j < LayerWidth(dd, l) /\ c <= PrevWidth(dd, l)}

\* what the update rule adds to the weight at place pl, given the learning
\* rate and the heap that holds the deltas and activations of the call
RuleIncrement(hp, dd, lr, pl) ==
    LET delta == Peek(hp, dd.deltas, pl[1] * dd.hiddenNeurons + pl[2])
    IN  IF pl[3] = 0 THEN Mul(Mul(delta, lr), 0 - One)
        ELSE Mul(Mul(delta, lr),
                 Peek(hp, dd.outputs, PrevStart(dd, pl[1]) + pl[3] - 1))

\* C17: one train(lr, x, t) call adds lr*delta*(-1) to the bias weight of
\* every hidden and output neuron and lr*delta*a[m] to its weight for unit
\* m of the previous layer, the row of neuron j of a layer starting at
\* (block start) + j*(n + 1); no weight receives anything else.
C17_WeightUpdateRule ==
    [][(last'.op = "train" /\ hist = "init" /\ ~last'.ub) =>
          \A pl \in WeightPlaces(d) :
              Peek(heap', d.weights, RowStart(d, pl[1], pl[2]) + pl[3])
              = Peek(heap, d.weights, RowStart(d, pl[1], pl[2]) + pl[3])
                + RuleIncrement(heap', d, last'.arg[1], pl)]_vars

\* C18: on a network that initialize allocated for a topology with
\* inputCount >= 0, hiddenLayerCount >= 0, outputCount >= 1 and
\* hiddenWidth >= 1 when there are hidden layers, every element that
\* inference or train reads or writes (weights, activations from offset
\* weightCount, deltas from offset weightCount + neuronCount) lies inside
\* the weightCount * neuronCount elements of the arena.
C18_ArenaBounds ==
    (/\ last.op \in {"inference", "train"}
     /\ hist = "init"
     /\ d.inputNeurons >= 0 /\ d.hiddenLayers >= 0 /\ d.outputNeurons >= 1
     /\ (d.hiddenLayers > 0 => d.hiddenNeurons >= 1)
     /\ d.weights.base \in Arenas
     /\ heap[d.weights.base].size = d.weightCount * d.neuronCount
     /\ d.outputs = PtrAdd(d.weights, d.weightCount)
     /\ d.deltas = PtrAdd(d.weights, d.weightCount + d.neuronCount))
        => ~last.ub

\* C19: after a successful loadFromFile of a model file that a network
\* set up by initialize wrote, on a fresh or an initialized instance, the
\* activation region and the delta region lie in the allocation that holds
\* the loaded weights, at the element offsets weightCount and
\* weightCount + neuronCount from its start.
C19_RegionLayoutAfterLoad ==
    (/\ last.op = "loadFromFile"
     /\ last.err = NO_ERROR
     /\ last.arg[1]
     /\ last.arg[2] = disk
     /\ last.arg[3] \in {"fresh", "init"}
     /\ saved.valid
     /\ saved.hist = "init") =>
        /\ d.weights.base \in Arenas
        /\ d.weights.off = 0
        /\ d.outputs = PtrAdd(d.weights, d.weightCount)
        /\ d.deltas = PtrAdd(d.weights, d.weightCount + d.neuronCount)

\* C20: through any sequence of initialize and loadFromFile calls on an
\* instance and its destruction, at most one arena is live at any time, no
\* call leaves an allocated arena that the instance cannot release any
\* more, none remains live after the destructor, and the destructor
\* releases only a null reference or one obtained from an allocation, also
\* for an instance that was only default-constructed.
C20_ArenaOwnership ==
    /\ Cardinality({a \in Arenas : heap[a].live}) <= 1
    /\ last.lost = 0
    /\ last.op = "~Diwa" =>
           /\ ~last.ub
           /\ \A a \in Arenas : ~heap[a].live

C28_CountsFollowFormulas ==
    (/\ last.op \in {"initialize", "loadFromFile"}
     /\ last.err = NO_ERROR
     /\ hist \in {"init", "other"}
     /\ last.op = "loadFromFile" => last.arg[1] /\ Len(last.arg[2]) >= 28
     /\ <<d.inputNeurons, d.hiddenLayers, d.hiddenNeurons, d.outputNeurons>>
        # <<0, 0, 0, 0>>) =>
        /\ d.weightCount
           = hiddenWeightCount(d.inputNeurons, d.hiddenLayers, d.hiddenNeurons)
             + outputWeightCount(d.inputNeurons, d.hiddenLayers,
                                 d.hiddenNeurons, d.outputNeurons)
        /\ d.neuronCount
           = d.inputNeurons + d.hiddenNeurons * d.hiddenLayers
             + d.outputNeurons

\* a file whose header declares other counts than the formulas give was
\* loaded
C28_Witness ==
    /\ last.op = "loadFromFile"
    /\ last.err = NO_ERROR
    /\ last.arg[1]
    /\ Len(last.arg[2]) > 28
    /\ SubSeq(last.arg[2], 1, 4) = Diwa4
    /\ u8aToInt(SubSeq(last.arg[2], 21, 24)) # d.weightCount
    /\ u8aToInt(SubSeq(last.arg[2], 25, 28)) # d.neuronCount
    /\ d.inputNeurons > 0
    /\ d.hiddenLayers > 0

\* C22: one inference call reads the weights 0, 1, ..., weightCount - 1 in
\* increasing order, each once and none outside; neuron j of a layer
\* consumes the (previous width + 1) weights of its row, the first times
\* -1 and weight m + 1 times activation m of the previous layer, also
\* without hidden layers, where a row has inputCount + 1 weights.
C22_ForwardWeightCursor ==
    (last.op = "inference" /\ hist = "init" /\ ~last.ub) =>
        LET reads == SelectSeq(last.log,
                               LAMBDA e : e[1] = "r" /\ e[2] = d.weights)
            W(k) == Peek(heap, d.weights, k)
            A(k) == Peek(heap, d.outputs, k)
            RECURSIVE Sum(_, _)
            Sum(pl, c) ==
                IF c > PrevWidth(d, pl[1]) THEN 0
                ELSE Mul(W(RowStart(d, pl[1], pl[2]) + c),
                         A(PrevStart(d, pl[1]) + c - 1))
                     + Sum(pl, c + 1)
        IN  /\ Len(reads) = d.weightCount
            /\ \A n \in 1..Len(reads) : reads[n][3] = n - 1
            /\ \A pl \in WeightPlaces(d) : pl[3] = 0 =>
                   A(d.inputNeurons + pl[1] * d.hiddenNeurons + pl[2])
                   = Activate(d.activation,
                              Mul(W(RowStart(d, pl[1], pl[2])), 0 - One)
                              + Sum(pl, 1))

\* an inference ran on a network with two hidden layers and an input
\* other than 0
C22_Witness ==
    /\ last.op = "inference"
    /\ hist = "init"
    /\ ~last.ub
    /\ d.hiddenLayers > 1
    /\ Len(last.log) > d.weightCount
    /\ \E k \in 1..d.inputNeurons : last.arg[1][k] # 0

\* C23: one inference call (alone or inside train) writes the activation
\* slots 0, ..., neuronCount - 1 each once and in this order, the input
\* first and then layer after layer; the activations read for a neuron
\* during the forward pass are the slots of the layer directly before its
\* own; the view inference
\* returns is the outputCount slots from inputCount + hiddenWidth *
\* hiddenLayerCount on, and the next inference or train call writes those
\* slots again.
C23_ActivationSlots ==
    [][(last'.op \in {"inference", "train"} /\ hist' = "init" /\ ~last'.ub) =>
          LET dd == d'
              log == last'.log
              IsWrite(n) == log[n][1] = "w" /\ log[n][2] = dd.outputs
              IsRead(n) == log[n][1] = "r" /\ log[n][2] = dd.outputs
              Writes == {n \in 1..Len(log) : IsWrite(n)}
              Before(n) == {m \in Writes : m < n}
              \* the layer of slot s (s >= inputCount)
              LayerOf(s) ==
                  IF dd.hiddenLayers = 0 THEN 0
                  ELSE Min(dd.hiddenLayers,
                           (s - dd.inputNeurons) \div dd.hiddenNeurons)
              \* the slot the next write after position n goes to
              NextSlot(n) == Cardinality(Before(n))
          IN  /\ dd = d
              /\ Cardinality(Writes) = dd.neuronCount
              /\ \A n \in Writes : log[n][3] = Cardinality(Before(n))
              /\ \A n \in 1..Len(log) :
                     (IsRead(n) /\ NextSlot(n) < dd.neuronCount) =>
                     /\ NextSlot(n) >= dd.inputNeurons
                     /\ log[n][3] >= PrevStart(dd, LayerOf(NextSlot(n)))
                     /\ log[n][3] < PrevStart(dd, LayerOf(NextSlot(n)))
                                    + PrevWidth(dd, LayerOf(NextSlot(n)))
              /\ last'.op = "inference" =>
                     last'.view = PtrAdd(dd.outputs,
                                         dd.inputNeurons
                                         + dd.hiddenNeurons * dd.hiddenLayers)
              /\ last.op = "inference" =>
                     /\ last.view = PtrAdd(dd.outputs,
                                           dd.neuronCount - dd.outputNeurons)
                     /\ \A j \in 0..(dd.outputNeurons - 1) :
                            \E n \in 1..Len(log) :
                                log[n] = <<"w", dd.outputs,
                                           last.view.off - dd.outputs.off + j>>
    ]_vars

\* an inference on a network with two hidden layers followed another
\* inference with a different input
C23_Witness ==
    /\ last.op = "inference"
    /\ hist = "init"
    /\ ~last.ub
    /\ d.hiddenLayers > 1
    /\ Cardinality(memo) > 1
    /\ Len(last.log) > d.neuronCount

C25_PhaseOrder ==
    (last.op = "train" /\ hist = "init" /\ ~last.ub) =>
        LET log == last.log
            Wr(p) == {n \in 1..Len(log) : log[n][1] = "w" /\ log[n][2] = p}
            OB == BlockStart(d, d.hiddenLayers)
        IN  /\ Cardinality(Wr(d.outputs)) = d.neuronCount
            /\ {log[n][3] : n \in Wr(d.deltas)}
               = 0..(d.hiddenNeurons * d.hiddenLayers + d.outputNeurons - 1)
            /\ \A a \in Wr(d.outputs), b \in Wr(d.deltas) : a < b
            /\ \A a \in Wr(d.deltas), b \in Wr(d.weights) : a < b
            /\ \A a \in Wr(d.weights), b \in Wr(d.weights) :
                   (log[a][3] >= OB /\ log[b][3] < OB) => a < b
            /\ \E a \in Wr(d.weights) : log[a][3] >= OB

\* a train call wrote weights of a hidden layer and of the output layer
C25_Witness ==
    /\ last.op = "train"
    /\ hist = "init"
    /\ ~last.ub
    /\ d.hiddenLayers > 0
    /\ \E a, b \in 1..Len(last.log) :
           /\ last.log[a] = <<"w", d.weights, 0>>
           /\ last.log[b] = <<"w", d.weights, d.weightCount - 1>>
           /\ b < a

\* C26: the Arduino loadFromFile returns INVALID_MAGIC_NUMBER, and changes
\* no field and nothing in memory, for every stream whose first four bytes
\* are not 'd','i','w','a', whether they compare lower or higher and
\* whatever memcmp returns for them.
C26_ArduinoMagicCheck ==
    [][(/\ last'.op = "loadFromFile(File)"
        /\ Len(last'.arg[2]) >= 4
        /\ SubSeq(last'.arg[2], 1, 4) # Diwa4) =>
           /\ last'.err = INVALID_MAGIC_NUMBER
           /\ d' = d
           /\ heap' = heap]_vars

\* C27: a trial counts as correct exactly when the inferred output matches
\* the expected output at every output neuron, that is when for every j
\* the activation is >= 0.5 exactly if the target is not 0; a trial with a
\* target of 0 and an activation >= 0.5 does not count, so that
\* calculateAccuracy returns 0 for it.
C27_DocumentedMatchRule ==
    Measured("calculateAccuracy") =>
        /\ Returned \in {0, One}
        /\ Returned = One <=>
              \A j \in 1..d.outputNeurons :
                  Activation(j) >= Half <=> ArgTarget[j] # 0

\* C29: inference, calculateAccuracy, calculateLoss, saveToFile,
\* getActivationFunction, recommendedHiddenNeuronCount and
\* recommendedHiddenLayerCount leave the four topology counts, weightCount,
\* neuronCount, every weight 0..weightCount-1 and every delta slot as they
\* were; a cell of memory changes only in a call of inference,
\* calculateAccuracy or calculateLoss, and only if it is one of the
\* activation slots 0..neuronCount-1.  (On a network that initialize set
\* up, none of whose earlier calls wrote past the end of the arena.)
C29_ReadOnlyFrame ==
    [][(/\ last'.op \in {"inference", "calculateAccuracy", "calculateLoss",
                         "saveToFile", "getActivationFunction",
                         "recommendedHiddenNeuronCount",
                         "recommendedHiddenLayerCount"}
        /\ hist = "init"
        /\ ~HasSlack(heap)
        /\ ~last'.ub) =>
           /\ CountsOf(d') = CountsOf(d)
           /\ d'.weights = d.weights /\ d'.deltas = d.deltas
           /\ \A k \in 0..(d.weightCount - 1) :
                 Peek(heap', d.weights, k) = Peek(heap, d.weights, k)
           /\ \A k \in 0..(d.neuronCount - d.inputNeurons - 1) :
                 Peek(heap', d.deltas, k) = Peek(heap, d.deltas, k)
           /\ \A a \in Arenas :
                 /\ heap'[a].live = heap[a].live
                 /\ heap'[a].size = heap[a].size
                 /\ \A c \in DOMAIN heap[a].mem \cup DOMAIN heap'[a].mem :
                       (\/ c \notin DOMAIN heap[a].mem
                        \/ c \notin DOMAIN heap'[a].mem
                        \/ heap'[a].mem[c] # heap[a].mem[c]) =>
                          /\ last'.op \in {"inference", "calculateAccuracy",
                                           "calculateLoss"}
                          /\ a = d.outputs.base
                          /\ (c - d.outputs.off) \in 0..(d.neuronCount - 1)]_vars

\* inference ran on a trained network with a hidden layer, whose delta
\* slots hold values that are not 0, and stored an input that is not 0
C29_Witness ==
    /\ last.op = "inference"
    /\ hist = "init"
    /\ ~last.ub
    /\ ~HasSlack(heap)
    /\ trains > 0
    /\ d.hiddenLayers > 0
    /\ \E k \in 0..(d.neuronCount - d.inputNeurons - 1) :
          Stored(heap, d.deltas, k) /\ Peek(heap, d.deltas, k) # 0
    /\ last.arg[1][1] = One
    /\ Peek(heap, d.outputs, 0) = One

\* C30: the trials of one calculateAccuracy call all run the same
\* inference on the same input and weights, so all of them pass or all of
\* them fail: for every number of trials N >= 1 calculateAccuracy returns
\* exactly 0 or exactly 1, never a fraction between, and calculateLoss
\* returns exactly 1 or exactly 0.
C30_TwoValued ==
    (Measured("calculateAccuracy") \/ Measured("calculateLoss")) =>
        /\ Returned \in {0, One}
        /\ ~(0 < Returned /\ Returned < One)

\* calculateAccuracy ran the largest number of trials, on a target that is
\* not 0, and every trial failed
C30_Witness ==
    /\ Measured("calculateAccuracy")
    /\ ArgEpoch = MaxEpoch
    /\ MaxEpoch > 1
    /\ \E j \in 1..d.outputNeurons : ArgTarget[j] # 0
    /\ Returned = 0

====
